---- MODULE Spec2Model ----
(***************************************************************************)
(* A model of the foundation-data-factory record pipeline:                 *)
(*   - Plan::execute          (crates/fdf-engine/src/plan.rs)              *)
(*   - ShardedWriter          (crates/fdf-engine/src/io/writer/sharded.rs) *)
(*   - JsonlWriter            (crates/fdf-engine/src/io/writer/jsonl.rs)   *)
(*   - ParquetWriter          (crates/fdf-engine/src/io/writer/parquet.rs) *)
(*   - run_pipeline           (src/runtime/mod.rs)                         *)
(*   - Plan::compile          (crates/fdf-engine/src/plan.rs)              *)
(*   - WriterFactory::create  (crates/fdf-engine/src/io.rs)                *)
(*   - ColumnFilterReader     (crates/fdf-engine/src/io/reader/column_filter.rs) *)
(*   - JsonlReader            (crates/fdf-engine/src/io/reader/jsonl.rs)   *)
(*   - ParquetReader          (crates/fdf-engine/src/io/reader/parquet.rs) *)
(*   - MultiFileReader        (crates/fdf-engine/src/io/reader/multi_file.rs) *)
(* Spec        drives Plan::execute over a reader, an operator chain and   *)
(*             the final / trace / error writers.                          *)
(* SpecSharded drives one ShardedWriter through write_sample and close.    *)
(* SpecFile    drives one JsonlWriter or ParquetWriter and its file.       *)
(* SpecRuntime drives one stage of run_pipeline: parallel batches, then    *)
(*             the partition files.                                        *)
(* SpecSinks   is Spec and SpecSharded side by side.                       *)
(* SpecParquet drives one ParquetWriter over typed records: the schema it  *)
(*             fixes at its first flush and the cells it writes.           *)
(* SpecCompile drives Plan::compile over a pipeline and a registry.        *)
(* SpecSink    drives WriterFactory::create and the shard file names.      *)
(* SpecFilter  drives one ColumnFilterReader through new and next.         *)
(* SpecJsonlReader   drives one JsonlReader over the lines of a file.      *)
(* SpecParquetReader drives one ParquetReader over a file's columns.       *)
(* SpecMultiFile     drives one MultiFileReader over its inner readers.    *)
(* SpecStage   is SpecRuntime over stages whose filter keeps every row.    *)
(***************************************************************************)
EXTENDS Integers, Sequences, FiniteSets, TLC

VARIABLES
    \* ---- Plan::execute ------------------------------------------------
    operators,                  \* Plan.operators: Vec<(String, Box<dyn Operator>)>
    enable_trace,               \* spec.sink.enable_trace
    inputs,                     \* the items the reader has yielded so far, in order
    pc,                         \* position of execute
    returned,                   \* Option<Result>: what execute returned
    step_idx,                   \* index of the operator loop
    sample_opt,                 \* Option<Sample>: the record travelling the chain
    sample_before_step,         \* Option<Sample>: the pre-step snapshot
    filtered_at_step,           \* Option<usize>
    step_writers,               \* HashMap<usize, Box<dyn Writer>>
    final_writer,               \* Option<Box<dyn Writer>>
    err_writer,                 \* Option<Box<dyn Writer>>
    total_rows,
    total_input_documents,
    documents_before_step,
    documents_removed_at_step,
    calls,                      \* per reader item, the process() calls made on it
    dirs,                       \* the output directories create_dir_all has made
    step_stats,                 \* Vec<StepStatistics>: the statistics execute returns
    \* ---- ShardedWriter ------------------------------------------------
    writers,                    \* HashMap<String, Box<dyn Writer>>, keyed by shard id
    shard_key,                  \* Option<String>
    samples_per_shard,
    current_shard_id,
    current_shard_count,
    shard_key_counts,           \* HashMap<String, usize>
    hash_of,                    \* DefaultHasher's value of each key value
    sw_state,                   \* "open" | "closed" | "close_failed" ("idle" otherwise)
    sw_written,                 \* number of write_sample calls made so far
    sw_routed,                  \* the shard ids write_sample calls were routed to
    has_any_data,               \* what close returned
    \* ---- JsonlWriter / ParquetWriter ------------------------------------
    fw,                         \* the writer: its fields, and how its calls ended
    fpath,                      \* the file at the writer's path
    \* ---- run_pipeline, one stage (src/runtime/mod.rs) --------------------
    rt_pc,                      \* position of run_pipeline in the stage
    batches,                    \* Vec<RecordBatch> read from the input
    processed_batches,          \* the slot of each batch in the collected Vec
    processed_batches_vec,
    next_batch,                 \* position of `for batch in processed_batches_vec`
    current_partition,
    current_partition_rows,
    partition_idx,
    partition_files,            \* the rows of part-00000, part-00001, ... as written
    stage_manifest,             \* Option: the manifest.json the stage has written
    \* ---- ParquetWriter, its schema and its rows ---------------------------
    input_schema,               \* Arc<Schema>: the schema the writer was created with
    actual_schema,              \* Option<Arc<Schema>>
    pq_buffer,                  \* ParquetWriter.buffer: Vec<Sample>
    pq_writer,                  \* whether the ArrowWriter exists
    pq_rows,                    \* the rows the ArrowWriter has written, as cells
    pq_samples_written,
    pq_state,                   \* "open" | "closed" | "failed" ("idle" otherwise)
    pq_calls,                   \* number of write_sample calls made so far
    pq_flush,                   \* Option: the last flush of a buffer that was not empty
    \* ---- Plan::compile and the runner ------------------------------------
    pipeline,                   \* spec.pipeline: Vec<OperatorNode>
    registry,                   \* the names OperatorRegistry.factories holds
    cp_operators,               \* the Vec compile is filling
    cp_pc,                      \* "build" | "ok" | "err" | "panic" | "executing"
    cp_error,                   \* Option: the error compile returned
    \* ---- WriterFactory::create and the shard file names -------------------
    sink,                       \* spec.sink: SinkSpec
    source_ext,                 \* the extension of the file name of source.uris[0]
    path_state,                 \* what is at the uri given to the factory
    sk_pc,                      \* "create" | "made" | "err" | "named"
    sk_via,                     \* who called the factory: "caller" or "execute"
    sk_writer,                  \* Option: the writer the factory returned
    sk_shard,                   \* Option: a shard id and the file name of its shard
    \* ---- ColumnFilterReader -----------------------------------------------
    original_schema,            \* inner.schema()
    column_mapping,             \* HashMap<String, String>: new_name -> original_name
    filtered_schema,            \* Option<Arc<Schema>>: set by new
    cf_pc,                      \* "new" | "ready" | "err" | "done"
    cf_error,                   \* Option: the column the error of new names
    cf_read,                    \* the items inner.next() has returned, in order
    cf_yielded,                 \* the items next() has returned, in order
    \* ---- JsonlReader -------------------------------------------------------
    jr_file,                    \* the lines of the file at the reader's path
    jr_pos,                     \* JsonlReader.reader: the number of lines read from the file
    current_line,               \* Option<String>
    jr_schema,                  \* JsonlReader.schema
    jr_pc,                      \* "new" | "open" | "err" | "ended"
    jr_items,                   \* the items next has returned, in order
    jr_io_failed,               \* whether File::open or a read_line has failed
    \* ---- ParquetReader -----------------------------------------------------
    pr_file_schema,             \* the schema of the parquet file: its columns in file order
    pr_rows,                    \* the rows of the file
    pr_mapping,                 \* column_mapping: new_name -> original_name
    pr_schema,                  \* ParquetReader.schema
    projection_indices,         \* the indices with_options collected, in the order it met them
    column_rename,              \* Option<HashMap<usize, String>>
    current_batch,              \* Option<RecordBatch>: the rows of the batch
    current_row,                \* usize
    pr_next_row,                \* ParquetReader.reader: the number of rows read into batches
    pr_pc,                      \* "new" | "open" | "err" | "ended" | "panic"
    pr_items,                   \* the items next has returned, in order
    pr_io_failed,               \* whether opening the file or reading a batch has failed
    \* ---- MultiFileReader ---------------------------------------------------
    mf_readers,                 \* MultiFileReader.readers: Vec<Box<dyn Reader>>
    current_reader_index,       \* usize
    mf_schema,                  \* Option<Arc<Schema>>: set by new
    mf_pc,                      \* "new" | "open" | "err" | "ended"
    mf_error,                   \* Option: the message of the error new returned
    mf_yielded                  \* the items next has returned, in order

engine_vars == <<operators, enable_trace, inputs, pc, returned, step_idx, sample_opt,
                 sample_before_step, filtered_at_step, step_writers, final_writer,
                 err_writer, total_rows, total_input_documents,
                 documents_before_step, documents_removed_at_step, calls, dirs,
                 step_stats>>

sharded_vars == <<writers, shard_key, samples_per_shard, current_shard_id,
                  current_shard_count, shard_key_counts, hash_of, sw_state,
                  sw_written, sw_routed, has_any_data>>

file_vars == <<fw, fpath>>

runtime_vars == <<rt_pc, batches, processed_batches, processed_batches_vec, next_batch,
                  current_partition, current_partition_rows, partition_idx,
                  partition_files, stage_manifest>>

parquet_vars == <<input_schema, actual_schema, pq_buffer, pq_writer, pq_rows,
                  pq_samples_written, pq_state, pq_calls, pq_flush>>

compile_vars == <<pipeline, registry, cp_operators, cp_pc, cp_error>>

sink_vars == <<sink, source_ext, path_state, sk_pc, sk_via, sk_writer, sk_shard>>

filter_vars == <<original_schema, column_mapping, filtered_schema, cf_pc, cf_error,
                 cf_read, cf_yielded>>

jsonl_reader_vars == <<jr_file, jr_pos, current_line,
    jr_schema, jr_pc, jr_items, jr_io_failed>>

parquet_reader_vars == <<pr_file_schema, pr_rows, pr_mapping, pr_schema, projection_indices, column_rename,
    current_batch, current_row, pr_next_row, pr_pc, pr_items, pr_io_failed>>

multi_file_vars == <<mf_readers, current_reader_index, mf_schema,
    mf_pc, mf_error, mf_yielded>>

vars == <<engine_vars, sharded_vars, file_vars, runtime_vars, parquet_vars, compile_vars,
          sink_vars, filter_vars,
    jsonl_reader_vars,
    parquet_reader_vars,
    multi_file_vars>>

\* what the actions of one component leave alone
not_engine == <<sharded_vars, file_vars, runtime_vars, parquet_vars, compile_vars,
    sink_vars, filter_vars,
    jsonl_reader_vars,
    parquet_reader_vars,
    multi_file_vars>>
not_sharded == <<engine_vars, file_vars, runtime_vars, parquet_vars, compile_vars,
    sink_vars, filter_vars,
    jsonl_reader_vars,
    parquet_reader_vars,
    multi_file_vars>>
not_file == <<engine_vars, sharded_vars, runtime_vars, parquet_vars, compile_vars,
    sink_vars, filter_vars,
    jsonl_reader_vars,
    parquet_reader_vars,
    multi_file_vars>>
not_runtime == <<engine_vars, sharded_vars, file_vars, parquet_vars, compile_vars,
    sink_vars, filter_vars,
    jsonl_reader_vars,
    parquet_reader_vars,
    multi_file_vars>>
not_parquet == <<engine_vars, sharded_vars, file_vars, runtime_vars, compile_vars,
    sink_vars, filter_vars,
    jsonl_reader_vars,
    parquet_reader_vars,
    multi_file_vars>>
not_sink == <<engine_vars, sharded_vars, file_vars, runtime_vars, parquet_vars, compile_vars,
    filter_vars,
    jsonl_reader_vars,
    parquet_reader_vars,
    multi_file_vars>>
not_filter == <<engine_vars, sharded_vars, file_vars, runtime_vars, parquet_vars,
    compile_vars, sink_vars,
    jsonl_reader_vars,
    parquet_reader_vars,
    multi_file_vars>>
not_compile == <<engine_vars, sharded_vars, file_vars, runtime_vars, parquet_vars,
    sink_vars, filter_vars,
    jsonl_reader_vars,
    parquet_reader_vars,
    multi_file_vars>>
not_jsonl_reader == <<engine_vars, sharded_vars, file_vars, runtime_vars, parquet_vars, compile_vars,
          sink_vars, filter_vars,
    parquet_reader_vars,
    multi_file_vars>>
not_parquet_reader == <<engine_vars, sharded_vars, file_vars, runtime_vars, parquet_vars, compile_vars,
          sink_vars, filter_vars,
    jsonl_reader_vars,
    multi_file_vars>>
not_multi_file == <<engine_vars, sharded_vars, file_vars, runtime_vars, parquet_vars, compile_vars,
          sink_vars, filter_vars,
    jsonl_reader_vars,
    parquet_reader_vars>>

-----------------------------------------------------------------------------
(* Bounds of the model *)

MaxItems == 2       \* reader items per run
MaxSteps == 2       \* operators per plan
MaxWrites == 5      \* write_sample calls on one ShardedWriter
MaxSamplesPerShard == 2
PartitionSize == 2  \* samples a writer buffers before it flushes (50000 and 10000 in the source)

-----------------------------------------------------------------------------
(* Option<T>: None is the empty sequence, Some(x) the one-element sequence *)

None == <<>>
Some(x) == <<x>>
IsSome(o) == o # <<>>
Unwrap(o) == o[1]

-----------------------------------------------------------------------------
(* Sample: a JSON object. A column holds a string, a number, or is absent. *)

Columns == {"text", "score", "id", "error"}

Absent == [t |-> "absent", s |-> "", n |-> 0]
Str(x) == [t |-> "string", s |-> x, n |-> 0]
Num(k) == [t |-> "number", s |-> "", n |-> k]

\* Sample::new
SampleNew == [c \in Columns |-> Absent]

Keys(sample) == {c \in Columns : sample[c].t # "absent"}

\* Sample::get_str
get_str(sample, k) == IF sample[k].t = "string" THEN Some(sample[k].s) ELSE None

\* Sample::get_f64
get_f64(sample, k) == IF sample[k].t = "number" THEN Some(sample[k].n) ELSE None

\* Sample::set_str
set_str(sample, k, v) == [sample EXCEPT ![k] = Str(v)]

\* str::make_ascii_lowercase over the strings of the model
AsciiLowercase(s) == IF s = "Ab" THEN "ab" ELSE s

-----------------------------------------------------------------------------
(* Operators: process(sample) -> Result<Option<Sample>> *)

Kept(sample) == [kind |-> "Kept", rec |-> sample]
Dropped == [kind |-> "Dropped", rec |-> SampleNew]
Failed == [kind |-> "Failed", rec |-> SampleNew]

LeqOp == [name |-> "filter_leq", col |-> "score", value |-> 2]
NormalizeOp == [name |-> "text_normalize_transformer", col |-> "text", value |-> 0]
AddIdOp == [name |-> "add_id", col |-> "id", value |-> 0]

OperatorSet == {LeqOp, NormalizeOp, AddIdOp}

\* the values Uuid::new_v4 can produce
Uuids == {"u1", "u2"}

\* LeqFilter::process
LeqFilterProcess(op, sample) ==
    LET val == get_f64(sample, op.col) IN
    IF ~IsSome(val) THEN {Failed}
    ELSE IF Unwrap(val) <= op.value THEN {Kept(sample)} ELSE {Dropped}

\* NormalizeTransformer::process, lowercase = true
NormalizeProcess(op, sample) ==
    LET text == get_str(sample, op.col) IN
    IF IsSome(text)
    THEN {Kept(set_str(sample, op.col, AsciiLowercase(Unwrap(text))))}
    ELSE {Failed}

\* AddIdAnnotator::process
AddIdProcess(op, sample) == {Kept(set_str(sample, op.col, id)) : id \in Uuids}

\* Operator::process, the set of results the call can return
Process(op, sample) ==
    CASE op.name = "filter_leq" -> LeqFilterProcess(op, sample)
      [] op.name = "text_normalize_transformer" -> NormalizeProcess(op, sample)
      [] op.name = "add_id" -> AddIdProcess(op, sample)

-----------------------------------------------------------------------------
(* Reader items: anyhow::Result<Sample> *)

SampleA == [SampleNew EXCEPT !["text"] = Str("Ab"), !["score"] = Num(1)]
SampleB == [SampleNew EXCEPT !["text"] = Str("ab"), !["score"] = Num(3)]
SampleC == [SampleNew EXCEPT !["score"] = Num(1)]

SourceSamples == {SampleA, SampleB, SampleC}

OkItem(sample) == [ok |-> TRUE, sample |-> sample, err |-> ""]
ErrItem(msg) == [ok |-> FALSE, sample |-> SampleNew, err |-> msg]

\* jsonl.rs 105: read_line failed. The model takes this failure to be the
\* lasting one (the handle is lost): every later read_line fails alike.
IoErrItem == ErrItem("Failed to read line")

ReaderItems ==
    {OkItem(s) : s \in SourceSamples} \cup {ErrItem("Failed to parse JSON"), IoErrItem}

\* the items a reader can yield after the items in `sofar`
NextItems(sofar) ==
    IF \E p \in 1..Len(sofar) : sofar[p] = IoErrItem THEN {IoErrItem} ELSE ReaderItems

\* the reader can return None after the items in `sofar`
ReaderCanEnd(sofar) == \A p \in 1..Len(sofar) : sofar[p] # IoErrItem

-----------------------------------------------------------------------------
(* Writers as the engine sees them: Box<dyn Writer> *)

\* WriterFactory::create. `samples` is every sample pushed to the writer, in
\* order: the first samples_written of them were flushed to the file and the
\* rest are in the writer's buffer.
NewWriter == [samples |-> <<>>, samples_written |-> 0, closed |-> FALSE]

\* JsonlWriter.buffer, and what the file holds
Buffer(w) == SubSeq(w.samples, w.samples_written + 1, Len(w.samples))
OnDisk(w) == SubSeq(w.samples, 1, w.samples_written)

\* JsonlWriter::flush, ParquetWriter::flush
Flush(w) == [w EXCEPT !.samples_written = Len(w.samples)]

\* Vec::push of write_sample
Push(w, e) == [w EXCEPT !.samples = Append(@, e)]

\* an entry written by write_sample; pos is the reader position it came from
Entry(pos, sample) == [pos |-> pos, rec |-> sample]

\* mutant: the sample is put in front of the ones already there
WriteSamplePrepends(w, e) == [w EXCEPT !.samples = <<e>> \o @]

\* Writer::write_sample: push, and flush when the buffer reaches partition_size
WriteSample(w, e) ==
    IF Len(Buffer(Push(w, e))) >= PartitionSize THEN Flush(Push(w, e)) ELSE Push(w, e)

\* Writer::close: flush what is left, then close the file
CloseWriter(w) == [Flush(w) EXCEPT !.closed = TRUE]

\* Writer::close returning Err: the writer is consumed, its flush did not happen
CloseFails(w) == [w EXCEPT !.closed = TRUE]

\* outcomes of creating a writer on demand and writing one sample to it:
\* create_dir_all failed, WriterFactory::create failed, write_sample failed, Ok
WriteOutcomes == {"ok", "mkdir_err", "create_err", "write_err"}

\* the directories of plan.rs 58-60 and 170
FinalDir == [kind |-> "final", step |-> 0]
ErrorDir == [kind |-> "error", step |-> 0]
StepDir(k) == [kind |-> "trace", step |-> k]

\* mutant: the directory is made whether or not a writer is demanded
CreateDirAllEager(made, d) == made \cup {d, FinalDir}

\* std::fs::create_dir_all
CreateDirAll(made, d) == made \cup {d}

NumOps == Len(operators)
Steps == 0 .. (NumOps - 1)
CurPos == Len(inputs)


-----------------------------------------------------------------------------
(* Plan::execute, the per-record routing *)

\* the writer to use: the existing one, or one created on demand
OrNew(wopt) == IF IsSome(wopt) THEN Unwrap(wopt) ELSE NewWriter

\* mutant: the snapshot is never taken
SnapshotNever(trace, current_sample, previous) == previous

\* mutant: the snapshot is taken at the first step only
SnapshotFirstOnly(trace, current_sample, previous) ==
    IF trace /\ ~IsSome(previous) THEN Some(current_sample) ELSE previous

\* plan.rs 119-128: the pre-step snapshot, cloned only when tracing is enabled
SnapshotBeforeStep(trace, current_sample, previous) ==
    IF trace THEN Some(current_sample) ELSE previous

\* mutant: the chain continues with the sample it had, not the one returned
NextSampleOptKeepsOld(result) ==
    IF result.kind = "Kept" THEN sample_opt ELSE None

\* plan.rs 136-152: the sample the chain continues with
NextSampleOpt(result) ==
    IF result.kind = "Kept" THEN Some(result.rec) ELSE None

\* mutant: every drop is attributed to the first step
FilteredAtFirst(result, idx) ==
    IF result.kind = "Kept" THEN None ELSE Some(0)

\* plan.rs 140-151: Ok(None) and Err(_) both record the step that filtered
FilteredAt(result, idx) ==
    IF result.kind = "Kept" THEN None ELSE Some(idx)

\* plan.rs 157-159
FinalSample(sopt) == sopt

\* mutant: the message is stored under another key
ErrorSampleWrongKey(e) == set_str(SampleNew, "text", e)

\* plan.rs 257-258
ErrorSample(e) == set_str(SampleNew, "error", e)

\* mutant: the iteration ends without counting the item
EndIterationUncounted ==
    /\ total_input_documents' = total_input_documents
    /\ pc' = "loop"
    /\ UNCHANGED returned

\* plan.rs 266: the end of one iteration of the reader loop
EndIteration ==
    /\ total_input_documents' = total_input_documents + 1
    /\ pc' = "loop"
    /\ UNCHANGED returned

\* the ? operator: execute returns the writer's error
ReturnErr(e) ==
    /\ pc' = "failed"
    /\ returned' = Some(e)

\* mutant: the operator's error is propagated with ?
PcAfterProcessPropagates(result, idx) ==
    IF result.kind = "Failed" THEN "failed"
    ELSE IF result.kind = "Kept" /\ idx + 1 < NumOps THEN "step" ELSE "route"

\* mutant: the loop does not break when the operator drops the record
PcAfterProcessContinues(result, idx) ==
    IF idx + 1 < NumOps THEN "step" ELSE "route"

\* plan.rs 136-153: where the operator loop goes after process returned
PcAfterProcess(result, idx) ==
    IF result.kind = "Kept" /\ idx + 1 < NumOps THEN "step" ELSE "route"

EngineInit ==
    /\ operators \in UNION {[1..n -> OperatorSet] : n \in 0..MaxSteps}
    /\ enable_trace \in BOOLEAN
    /\ inputs = <<>>
    /\ pc = "loop"
    /\ returned = None
    /\ step_idx = 0
    /\ sample_opt = None
    /\ sample_before_step = None
    /\ filtered_at_step = None
    /\ step_writers = [k \in Steps |-> None]
    /\ final_writer = None
    /\ err_writer = None
    /\ total_rows = 0
    /\ total_input_documents = 0
    /\ documents_before_step = [k \in Steps |-> 0]
    /\ documents_removed_at_step = [k \in Steps |-> 0]
    /\ calls = <<>>
    /\ dirs = {}
    /\ step_stats = <<>>

\* plan.rs 105-111: the reader yields Ok(sample)
ReaderYieldsOk ==
    /\ pc = "loop"
    /\ Len(inputs) < MaxItems
    /\ \E sample \in SourceSamples :
         /\ OkItem(sample) \in NextItems(inputs)
         /\ inputs' = Append(inputs, OkItem(sample))
         /\ sample_opt' = Some(sample)
    /\ calls' = Append(calls, <<>>)
    /\ filtered_at_step' = None
    /\ sample_before_step' = None
    /\ step_idx' = 0
    /\ pc' = IF NumOps = 0 THEN "route" ELSE "step"
    /\ UNCHANGED not_engine
    /\ UNCHANGED step_stats
    /\ UNCHANGED <<operators, dirs, returned, enable_trace, step_writers, final_writer, err_writer,
                   total_rows, total_input_documents, documents_before_step,
                   documents_removed_at_step>>

\* plan.rs 105-106, 238: the reader yields Err(e)
ReaderYieldsErr ==
    /\ pc = "loop"
    /\ Len(inputs) < MaxItems
    /\ \E item \in {i \in NextItems(inputs) : ~i.ok} : inputs' = Append(inputs, item)
    /\ calls' = Append(calls, <<>>)
    /\ pc' = "error"
    /\ UNCHANGED not_engine
    /\ UNCHANGED step_stats
    /\ UNCHANGED <<operators, dirs, returned, enable_trace, step_idx, sample_opt, sample_before_step,
                   filtered_at_step, step_writers, final_writer, err_writer,
                   total_rows, total_input_documents, documents_before_step,
                   documents_removed_at_step>>

\* plan.rs 105, 271: the reader is exhausted
ReaderEnds ==
    /\ pc = "loop"
    /\ ReaderCanEnd(inputs)
    /\ pc' = "close"
    /\ UNCHANGED not_engine
    /\ UNCHANGED step_stats
    /\ UNCHANGED <<operators, dirs, returned, enable_trace, inputs, step_idx, sample_opt,
                   sample_before_step, filtered_at_step, step_writers, final_writer,
                   err_writer, total_rows, total_input_documents,
                   documents_before_step, documents_removed_at_step, calls>>

\* plan.rs 114-153: one iteration of the operator loop
ProcessStep ==
    /\ pc = "step"
    /\ step_idx < NumOps
    /\ IsSome(sample_opt)
    /\ LET op == operators[step_idx + 1]
           current_sample == Unwrap(sample_opt)
       IN \E result \in Process(op, current_sample) :
            /\ documents_before_step' =
                 [documents_before_step EXCEPT ![step_idx] = @ + 1]
            /\ sample_before_step' =
                 SnapshotBeforeStep(enable_trace, current_sample, sample_before_step)
            /\ calls' = [calls EXCEPT ![CurPos] =
                 Append(@, [step |-> step_idx, input |-> current_sample,
                            result |-> result])]
            /\ sample_opt' = NextSampleOpt(result)
            /\ filtered_at_step' = FilteredAt(result, step_idx)
            /\ documents_removed_at_step' =
                 IF result.kind = "Kept" THEN documents_removed_at_step
                 ELSE [documents_removed_at_step EXCEPT ![step_idx] = @ + 1]
            /\ step_idx' = IF result.kind = "Kept" THEN step_idx + 1 ELSE step_idx
            /\ pc' = PcAfterProcess(result, step_idx)
    /\ UNCHANGED not_engine
    /\ UNCHANGED step_stats
    /\ UNCHANGED <<operators, dirs, returned, enable_trace, inputs, step_writers, final_writer,
                   err_writer, total_rows, total_input_documents>>

\* mutant: a filtered record is written to its trace writer and, falling
\* through, its snapshot to the final writer too
WriteTraceAndFinal ==
    /\ pc = "route"
    /\ IsSome(filtered_at_step)
    /\ enable_trace
    /\ IsSome(sample_before_step)
    /\ step_writers' = [step_writers EXCEPT ![Unwrap(filtered_at_step)] =
         Some(WriteSample(OrNew(@), Entry(CurPos, Unwrap(sample_before_step))))]
    /\ final_writer' = Some(WriteSample(OrNew(final_writer),
                             Entry(CurPos, Unwrap(sample_before_step))))
    /\ dirs' = CreateDirAll(CreateDirAll(dirs, StepDir(Unwrap(filtered_at_step))), FinalDir)
    /\ EndIteration
    /\ UNCHANGED not_engine
    /\ UNCHANGED step_stats
    /\ UNCHANGED <<operators, enable_trace, inputs, step_idx, sample_opt,
                   sample_before_step, filtered_at_step, err_writer,
                   total_rows, documents_before_step, documents_removed_at_step, calls>>

\* plan.rs 162-204: the record was filtered and tracing is enabled
WriteTrace ==
    /\ pc = "route"
    /\ IsSome(filtered_at_step)
    /\ enable_trace
    /\ LET i == Unwrap(filtered_at_step) IN
       \E outcome \in WriteOutcomes :
         \/ /\ outcome = "mkdir_err"
            /\ ~IsSome(step_writers[i])
            /\ ReturnErr(outcome)
            /\ UNCHANGED <<step_writers, total_input_documents, dirs>>
         \/ /\ outcome = "create_err"
            /\ ~IsSome(step_writers[i])
            /\ dirs' = CreateDirAll(dirs, StepDir(i))
            /\ ReturnErr(outcome)
            /\ UNCHANGED <<step_writers, total_input_documents>>
         \/ /\ outcome = "write_err"
            /\ step_writers' = [step_writers EXCEPT ![i] = Some(OrNew(@))]
            /\ dirs' = CreateDirAll(dirs, StepDir(i))
            /\ ReturnErr(outcome)
            /\ UNCHANGED total_input_documents
         \/ /\ outcome = "ok"
            /\ step_writers' = [step_writers EXCEPT ![i] =
                 IF IsSome(sample_before_step)
                 THEN Some(WriteSample(OrNew(@), Entry(CurPos, Unwrap(sample_before_step))))
                 ELSE Some(OrNew(@))]
            /\ dirs' = CreateDirAll(dirs, StepDir(i))
            /\ EndIteration
    /\ UNCHANGED not_engine
    /\ UNCHANGED step_stats
    /\ UNCHANGED <<operators, enable_trace, inputs, step_idx, sample_opt,
                   sample_before_step, filtered_at_step, final_writer, err_writer,
                   total_rows, documents_before_step, documents_removed_at_step, calls>>

\* plan.rs 162-165: the record was filtered and tracing is disabled
SkipTrace ==
    /\ pc = "route"
    /\ IsSome(filtered_at_step)
    /\ ~enable_trace
    /\ EndIteration
    /\ UNCHANGED not_engine
    /\ UNCHANGED step_stats
    /\ UNCHANGED <<operators, dirs, returned, enable_trace, inputs, step_idx, sample_opt,
                   sample_before_step, filtered_at_step, step_writers, final_writer,
                   err_writer, total_rows, documents_before_step,
                   documents_removed_at_step, calls>>

\* plan.rs 205-236: the record passed every step
WriteFinal ==
    /\ pc = "route"
    /\ ~IsSome(filtered_at_step)
    /\ IsSome(FinalSample(sample_opt))
    /\ \E outcome \in WriteOutcomes :
         \/ /\ outcome = "mkdir_err"
            /\ ~IsSome(final_writer)
            /\ ReturnErr(outcome)
            /\ UNCHANGED <<final_writer, total_rows, total_input_documents, dirs>>
         \/ /\ outcome = "create_err"
            /\ ~IsSome(final_writer)
            /\ dirs' = CreateDirAll(dirs, FinalDir)
            /\ ReturnErr(outcome)
            /\ UNCHANGED <<final_writer, total_rows, total_input_documents>>
         \/ /\ outcome = "write_err"
            /\ final_writer' = Some(OrNew(final_writer))
            /\ dirs' = CreateDirAll(dirs, FinalDir)
            /\ ReturnErr(outcome)
            /\ UNCHANGED <<total_rows, total_input_documents>>
         \/ /\ outcome = "ok"
            /\ final_writer' = Some(WriteSample(OrNew(final_writer),
                                     Entry(CurPos, Unwrap(FinalSample(sample_opt)))))
            /\ dirs' = CreateDirAll(dirs, FinalDir)
            /\ total_rows' = total_rows + 1
            /\ EndIteration
    /\ UNCHANGED not_engine
    /\ UNCHANGED step_stats
    /\ UNCHANGED <<operators, enable_trace, inputs, step_idx, sample_opt,
                   sample_before_step, filtered_at_step, step_writers, err_writer,
                   documents_before_step, documents_removed_at_step, calls>>

\* plan.rs 238-263: the reader item was an error
WriteError ==
    /\ pc = "error"
    /\ \E outcome \in WriteOutcomes :
         \/ /\ outcome = "mkdir_err"
            /\ ~IsSome(err_writer)
            /\ ReturnErr(outcome)
            /\ UNCHANGED <<err_writer, total_input_documents, dirs>>
         \/ /\ outcome = "create_err"
            /\ ~IsSome(err_writer)
            /\ dirs' = CreateDirAll(dirs, ErrorDir)
            /\ ReturnErr(outcome)
            /\ UNCHANGED <<err_writer, total_input_documents>>
         \/ /\ outcome = "write_err"
            /\ err_writer' = Some(OrNew(err_writer))
            /\ dirs' = CreateDirAll(dirs, ErrorDir)
            /\ ReturnErr(outcome)
            /\ UNCHANGED total_input_documents
         \/ /\ outcome = "ok"
            /\ err_writer' = Some(WriteSample(OrNew(err_writer),
                                   Entry(CurPos, ErrorSample(inputs[CurPos].err))))
            /\ dirs' = CreateDirAll(dirs, ErrorDir)
            /\ EndIteration
    /\ UNCHANGED not_engine
    /\ UNCHANGED step_stats
    /\ UNCHANGED <<operators, enable_trace, inputs, step_idx, sample_opt,
                   sample_before_step, filtered_at_step, step_writers, final_writer,
                   total_rows, documents_before_step, documents_removed_at_step, calls>>

-----------------------------------------------------------------------------
(* Plan::execute, closing the writers *)

OpenStepWriters == {k \in Steps : IsSome(step_writers[k]) /\ ~Unwrap(step_writers[k]).closed}

\* plan.rs 277-292: the step writers, in the HashMap's iteration order
CloseStepWriter ==
    /\ pc = "close"
    /\ \E k \in OpenStepWriters : \E ok \in BOOLEAN :
         IF ok
         THEN /\ step_writers' = [step_writers EXCEPT ![k] = Some(CloseWriter(Unwrap(@)))]
              /\ pc' = "close"
              /\ UNCHANGED returned
         ELSE /\ ReturnErr("close_err")
              /\ step_writers' = [step_writers EXCEPT ![k] = Some(CloseFails(Unwrap(@)))]
    /\ UNCHANGED not_engine
    /\ UNCHANGED step_stats
    /\ UNCHANGED <<operators, dirs, enable_trace, inputs, step_idx, sample_opt,
                   sample_before_step, filtered_at_step, final_writer, err_writer,
                   total_rows, total_input_documents, documents_before_step,
                   documents_removed_at_step, calls>>

\* plan.rs 293-304
CloseFinalWriter ==
    /\ pc = "close"
    /\ OpenStepWriters = {}
    /\ \E ok \in BOOLEAN :
         IF ~IsSome(final_writer)
         THEN /\ ok
              /\ pc' = "close_err"
              /\ UNCHANGED <<final_writer, returned>>
         ELSE IF ok
         THEN /\ final_writer' = Some(CloseWriter(Unwrap(final_writer)))
              /\ pc' = "close_err"
              /\ UNCHANGED returned
         ELSE /\ ReturnErr("close_err")
              /\ final_writer' = Some(CloseFails(Unwrap(final_writer)))
    /\ UNCHANGED not_engine
    /\ UNCHANGED step_stats
    /\ UNCHANGED <<operators, dirs, enable_trace, inputs, step_idx, sample_opt,
                   sample_before_step, filtered_at_step, step_writers, err_writer,
                   total_rows, total_input_documents, documents_before_step,
                   documents_removed_at_step, calls>>

\* plan.rs 20-27, StepStatistics (processing_time_ms left out)
StepStatistics(name, idx, removed, before, total) ==
    [step_name |-> name, step_index |-> idx, documents_removed |-> removed,
     documents_remaining_before |-> before, total_documents |-> total]

\* mutant: total_documents counts the records written to final
BuildStepStatisticsOfSurvivors ==
    [k \in 1..NumOps |->
       StepStatistics(operators[k].name, k - 1, documents_removed_at_step[k - 1],
                      documents_before_step[k - 1], total_rows)]

\* plan.rs 314-328: the statistics of every step
BuildStepStatistics ==
    [k \in 1..NumOps |->
       StepStatistics(operators[k].name, k - 1, documents_removed_at_step[k - 1],
                      documents_before_step[k - 1], total_input_documents)]

\* plan.rs 305-341: the error writer, then the statistics; execute returns Ok
CloseErrWriter ==
    /\ pc = "close_err"
    /\ \E ok \in BOOLEAN :
         IF ~IsSome(err_writer)
         THEN /\ ok
              /\ pc' = "done"
              /\ returned' = Some("Ok")
              /\ step_stats' = BuildStepStatistics
              /\ UNCHANGED err_writer
         ELSE IF ok
         THEN /\ err_writer' = Some(CloseWriter(Unwrap(err_writer)))
              /\ pc' = "done"
              /\ returned' = Some("Ok")
              /\ step_stats' = BuildStepStatistics
         ELSE /\ ReturnErr("close_err")
              /\ err_writer' = Some(CloseFails(Unwrap(err_writer)))
              /\ UNCHANGED step_stats
    /\ UNCHANGED not_engine
    /\ UNCHANGED <<operators, dirs, enable_trace, inputs, step_idx, sample_opt,
                   sample_before_step, filtered_at_step, step_writers, final_writer,
                   total_rows, total_input_documents, documents_before_step,
                   documents_removed_at_step, calls>>

EngineNext ==
    \/ ReaderYieldsOk
    \/ ReaderYieldsErr
    \/ ReaderEnds
    \/ ProcessStep
    \/ WriteTrace
    \/ SkipTrace
    \/ WriteFinal
    \/ WriteError
    \/ CloseStepWriter
    \/ CloseFinalWriter
    \/ CloseErrWriter

-----------------------------------------------------------------------------
(* ShardedWriter *)

\* sharded.rs 149: hash % 1000
ShardBuckets == 1000

\* the values of the shard key column, and the hashes DefaultHasher can give them
KeyValues == {"a", "b"}
HashValues == {0, 1, 2001}
ShardKeyColumn == "text"

\* the samples written to the sharded writer
ShardSamples == {set_str(SampleNew, ShardKeyColumn, v) : v \in KeyValues} \cup {SampleNew}

\* HashMap::get with a default, HashMap::insert
GetOr(map, k, default) == IF k \in DOMAIN map THEN map[k] ELSE default
Insert(map, k, v) == [x \in DOMAIN map \cup {k} |-> IF x = k THEN v ELSE map[x]]

\* sharded.rs 175-194, check_and_advance_shard: the shard id returned and the
\* new values of current_shard_id and current_shard_count
CheckAndAdvanceShard(current_id, count, n) ==
    IF count >= n
    THEN [shard_id |-> current_id + 1, current_id |-> current_id + 1, count |-> 0]
    ELSE [shard_id |-> current_id, current_id |-> current_id, count |-> count + 1]

\* mutant: a full shard makes the key value skip one shard id
KeyedShardSkips(hash, count, n) ==
    LET base_shard == hash % ShardBuckets IN
    IF count >= n
    THEN [shard_id |-> base_shard + 2 * (count \div n), count |-> 0 + 1]
    ELSE [shard_id |-> base_shard + 2 * (count \div n), count |-> count + 1]

\* sharded.rs 149-161, determine_shard_id with a key value: the shard id returned
\* and the new count of that key value
KeyedShard(hash, count, n) ==
    LET base_shard == hash % ShardBuckets IN
    IF count >= n
    THEN [shard_id |-> base_shard + (count \div n), count |-> 0 + 1]
    ELSE [shard_id |-> base_shard + (count \div n), count |-> count + 1]

\* mutant: the sub-writer of the next shard is created ahead of its first record
GetWriterAhead(ws, shard_id) ==
    LET one == IF shard_id \in DOMAIN ws THEN ws ELSE Insert(ws, shard_id, NewWriter)
    IN IF shard_id + 1 \in DOMAIN one THEN one ELSE Insert(one, shard_id + 1, NewWriter)

\* sharded.rs 121-130, get_writer: the sub-writer of a shard is created on demand
GetWriter(ws, shard_id) ==
    IF shard_id \in DOMAIN ws THEN ws ELSE Insert(ws, shard_id, NewWriter)

\* how a write_sample call ends: Ok, create_writer failed (sharded.rs 126), or
\* the flush of the sub-writer failed (sharded.rs 209, jsonl.rs 64)
ShardWriteOutcomes == {"ok", "create_err", "write_err"}

\* the outcomes possible when entry e is routed to shard_id
CanEnd(ws, shard_id, outcome) ==
    CASE outcome = "ok" -> TRUE
      [] outcome = "create_err" -> shard_id \notin DOMAIN ws
      [] outcome = "write_err" ->
           Len(Buffer(GetWriter(ws, shard_id)[shard_id])) + 1 >= PartitionSize

\* sharded.rs 204-211: the sub-writers after entry e was routed to shard_id
WritersAfter(ws, shard_id, e, outcome) ==
    CASE outcome = "ok" ->
           [GetWriter(ws, shard_id) EXCEPT ![shard_id] = WriteSample(@, e)]
      [] outcome = "create_err" -> ws
      [] outcome = "write_err" ->
           [GetWriter(ws, shard_id) EXCEPT ![shard_id] = Push(@, e)]

ShardedIdle ==
    /\ writers = <<>>
    /\ shard_key = None
    /\ samples_per_shard = 0
    /\ current_shard_id = 0
    /\ current_shard_count = 0
    /\ shard_key_counts = <<>>
    /\ hash_of = <<>>
    /\ sw_state = "idle"
    /\ sw_written = 0
    /\ sw_routed = {}
    /\ has_any_data = FALSE

EngineIdle ==
    /\ operators = <<>>
    /\ enable_trace = FALSE
    /\ inputs = <<>>
    /\ pc = "idle"
    /\ returned = None
    /\ step_idx = 0
    /\ sample_opt = None
    /\ sample_before_step = None
    /\ filtered_at_step = None
    /\ step_writers = <<>>
    /\ final_writer = None
    /\ err_writer = None
    /\ total_rows = 0
    /\ total_input_documents = 0
    /\ documents_before_step = <<>>
    /\ documents_removed_at_step = <<>>
    /\ calls = <<>>
    /\ dirs = {}
    /\ step_stats = <<>>

\* sharded.rs 41-88, ShardedWriter::new
ShardedInit ==
    /\ writers = <<>>
    /\ shard_key \in {None, Some(ShardKeyColumn)}
    /\ samples_per_shard \in 1..MaxSamplesPerShard
    /\ current_shard_id = 0
    /\ current_shard_count = 0
    /\ shard_key_counts = <<>>
    /\ hash_of \in [KeyValues -> HashValues]
    /\ sw_state = "open"
    /\ sw_written = 0
    /\ sw_routed = {}
    /\ has_any_data = FALSE

\* the key value determine_shard_id looks up (sharded.rs 135-137)
KeyValueOf(sample) ==
    IF IsSome(shard_key) THEN get_str(sample, Unwrap(shard_key)) ELSE None

\* sharded.rs 198-212 with 134-163: write_sample of a sample holding the shard key
WriteSampleKeyed ==
    /\ sw_state = "open"
    /\ sw_written < MaxWrites
    /\ \E sample \in ShardSamples : \E outcome \in ShardWriteOutcomes :
         /\ IsSome(KeyValueOf(sample))
         /\ LET value == Unwrap(KeyValueOf(sample))
                r == KeyedShard(hash_of[value], GetOr(shard_key_counts, value, 0),
                                samples_per_shard)
            IN /\ CanEnd(writers, r.shard_id, outcome)
               /\ shard_key_counts' = Insert(shard_key_counts, value, r.count)
               /\ sw_routed' = sw_routed \cup {r.shard_id}
               /\ writers' = WritersAfter(writers, r.shard_id,
                                          Entry(sw_written + 1, sample), outcome)
    /\ sw_written' = sw_written + 1
    /\ UNCHANGED <<shard_key, samples_per_shard, current_shard_id, current_shard_count,
                   hash_of, sw_state, has_any_data>>
    /\ UNCHANGED not_sharded

\* sharded.rs 198-212 with 164-171: write_sample without a shard key, or of a
\* sample that has no string at the shard key
WriteSampleSequential ==
    /\ sw_state = "open"
    /\ sw_written < MaxWrites
    /\ \E sample \in ShardSamples : \E outcome \in ShardWriteOutcomes :
         /\ ~IsSome(KeyValueOf(sample))
         /\ LET r == CheckAndAdvanceShard(current_shard_id, current_shard_count,
                                          samples_per_shard)
            IN /\ CanEnd(writers, r.shard_id, outcome)
               /\ current_shard_id' = r.current_id
               /\ current_shard_count' = r.count
               /\ sw_routed' = sw_routed \cup {r.shard_id}
               /\ writers' = WritersAfter(writers, r.shard_id,
                                          Entry(sw_written + 1, sample), outcome)
    /\ sw_written' = sw_written + 1
    /\ UNCHANGED <<shard_key, samples_per_shard, shard_key_counts, hash_of, sw_state,
                   has_any_data>>
    /\ UNCHANGED not_sharded

\* sharded.rs 214-224, close: the sub-writers are drained in the HashMap's order
\* and closed one by one; the first close that fails ends the call, and the
\* sub-writers not yet visited are dropped as they are. A sub-writer reports
\* data iff it flushed samples (jsonl.rs 75). OpenStepWriters below reads
\* `closed` as: close was called on the writer.
ShardedClose ==
    /\ sw_state = "open"
    /\ \E visited \in SUBSET (DOMAIN writers) :
         \/ /\ visited = DOMAIN writers
            /\ writers' = [k \in DOMAIN writers |-> CloseWriter(writers[k])]
            /\ sw_state' = "closed"
            /\ has_any_data' = \E k \in DOMAIN writers :
                                   CloseWriter(writers[k]).samples_written > 0
         \/ \E failing \in DOMAIN writers \ visited :
              /\ writers' = [k \in DOMAIN writers |->
                               IF k \in visited THEN CloseWriter(writers[k])
                               ELSE IF k = failing THEN CloseFails(writers[k])
                               ELSE writers[k]]
              /\ sw_state' = "close_failed"
              /\ UNCHANGED has_any_data
    /\ UNCHANGED <<shard_key, samples_per_shard, current_shard_id, current_shard_count,
                   shard_key_counts, hash_of, sw_written, sw_routed>>
    /\ UNCHANGED not_sharded

-----------------------------------------------------------------------------
(* JsonlWriter and ParquetWriter, one writer and the file at its path *)

MaxFileWrites == 5  \* write_sample calls on one writer

FileKinds == {"jsonl", "parquet"}

\* the file at the path: whether it exists and the rows this writer put in it
NoFile == [exists |-> FALSE, rows |-> 0]
EmptyFile == [exists |-> TRUE, rows |-> 0]

\* File::create: the file is created, or truncated if it was there
FileCreate(f) == EmptyFile

\* mutant: the file is left where it is
RemoveFileKeeps(f) == f

\* std::fs::remove_file, its result discarded
RemoveFile(f) == NoFile

\* jsonl.rs 18-29, JsonlWriter::new; parquet.rs 22-32, ParquetWriter::new.
\* `buffer` is the length of the buffer, `writer` tells whether the
\* ArrowWriter exists (the BufWriter of a JsonlWriter always does); calls,
\* accepted and result record the write_sample calls made, those that
\* returned Ok, and what close returned.
FileWriterNew(kind) ==
    [kind |-> kind, buffer |-> 0, samples_written |-> 0, writer |-> (kind = "jsonl"),
     state |-> "open", calls |-> 0, accepted |-> 0, result |-> None]

FileWriterIdle ==
    [kind |-> "jsonl", buffer |-> 0, samples_written |-> 0, writer |-> FALSE,
     state |-> "idle", calls |-> 0, accepted |-> 0, result |-> None]

FlushResult(w, f, ok) == [w |-> w, f |-> f, ok |-> ok]

\* jsonl.rs 32-55, JsonlWriter::flush: the ways it can end
JsonlFlush(w, f) ==
    IF w.buffer = 0 THEN {FlushResult(w, f, TRUE)}
    ELSE { \* serde_json::to_string or write_all failed
           FlushResult(w, f, FALSE),
           FlushResult([w EXCEPT !.samples_written = @ + w.buffer, !.buffer = 0],
                       [f EXCEPT !.rows = @ + w.buffer], TRUE) }

\* parquet.rs 35-54, ParquetWriter::init_writer with a buffer that is not empty
InitWriter(w, f) ==
    IF w.writer THEN {FlushResult(w, f, TRUE)}
    ELSE { \* build_schema_from_samples or File::create failed
           FlushResult(w, f, FALSE),
           \* ArrowWriter::try_new failed after the file was created
           FlushResult(w, FileCreate(f), FALSE),
           FlushResult([w EXCEPT !.writer = TRUE], FileCreate(f), TRUE) }

\* parquet.rs 123-129: the rest of flush once the writer exists
ParquetWriteBatch(w, f) ==
    { \* samples_to_batch failed
      FlushResult(w, f, FALSE),
      \* ArrowWriter::write failed, samples_written already counts the buffer
      FlushResult([w EXCEPT !.samples_written = @ + w.buffer], f, FALSE),
      FlushResult([w EXCEPT !.samples_written = @ + w.buffer, !.buffer = 0],
                  [f EXCEPT !.rows = @ + w.buffer], TRUE) }

\* parquet.rs 115-130, ParquetWriter::flush: the ways it can end
ParquetFlush(w, f) ==
    IF w.buffer = 0 THEN {FlushResult(w, f, TRUE)}
    ELSE UNION { IF i.ok THEN ParquetWriteBatch(i.w, i.f) ELSE {i} : i \in InitWriter(w, f) }

\* the flush of the writer's kind
FlushOf(w, f) == IF w.kind = "jsonl" THEN JsonlFlush(w, f) ELSE ParquetFlush(w, f)

\* write_sample of both writers: push, then flush at partition_size
WriteSampleEnds(w, f) ==
    LET pushed == [w EXCEPT !.buffer = @ + 1, !.calls = @ + 1] IN
    IF pushed.buffer >= PartitionSize
    THEN { FlushResult([r.w EXCEPT !.accepted = IF r.ok THEN @ + 1 ELSE @], r.f, r.ok) :
             r \in FlushOf(pushed, f) }
    ELSE { FlushResult([pushed EXCEPT !.accepted = @ + 1], f, TRUE) }

FileInit ==
    /\ \E kind \in FileKinds : fw = FileWriterNew(kind)
    /\ fpath \in IF fw.kind = "jsonl" THEN {FileCreate(NoFile)} ELSE {NoFile, EmptyFile}

FileIdle ==
    /\ fw = FileWriterIdle
    /\ fpath = NoFile

\* jsonl.rs 59-68, JsonlWriter::write_sample
JsonlWriteSample ==
    /\ fw.state = "open"
    /\ fw.kind = "jsonl"
    /\ fw.calls < MaxFileWrites
    /\ \E r \in WriteSampleEnds(fw, fpath) :
         /\ fw' = r.w
         /\ fpath' = r.f
    /\ UNCHANGED not_file

\* jsonl.rs 70-84, JsonlWriter::close
JsonlClose ==
    /\ fw.state = "open"
    /\ fw.kind = "jsonl"
    /\ \E r \in JsonlFlush(fw, fpath) : \E flushed \in BOOLEAN :
         IF r.ok /\ flushed
         THEN LET has_data == r.w.samples_written > 0 IN
              /\ fw' = [r.w EXCEPT !.state = "closed", !.result = Some(has_data)]
              /\ fpath' = IF has_data THEN r.f ELSE RemoveFile(r.f)
         ELSE /\ fw' = [r.w EXCEPT !.state = "close_failed"]
              /\ fpath' = r.f
    /\ UNCHANGED not_file

\* parquet.rs 214-223, ParquetWriter::write_sample
ParquetWriteSample ==
    /\ fw.state = "open"
    /\ fw.kind = "parquet"
    /\ fw.calls < MaxFileWrites
    /\ \E r \in WriteSampleEnds(fw, fpath) :
         /\ fw' = r.w
         /\ fpath' = r.f
    /\ UNCHANGED not_file

\* parquet.rs 225-239, ParquetWriter::close
ParquetClose ==
    /\ fw.state = "open"
    /\ fw.kind = "parquet"
    /\ \E r \in ParquetFlush(fw, fpath) : \E closed \in BOOLEAN :
         LET has_data == r.w.samples_written > 0 IN
         IF r.ok /\ (closed \/ ~r.w.writer)
         THEN /\ fw' = [r.w EXCEPT !.state = "closed", !.result = Some(has_data)]
              /\ fpath' = IF ~r.w.writer /\ ~has_data THEN RemoveFile(r.f) ELSE r.f
         ELSE /\ fw' = [r.w EXCEPT !.state = "close_failed"]
              /\ fpath' = r.f
    /\ UNCHANGED not_file

-----------------------------------------------------------------------------
(* run_pipeline: the batches of one stage are processed in parallel, collected
   in input order and written to partition files *)

MaxBatches == 3     \* batches read from the input
MaxBatchRows == 3   \* rows of one batch
partition_size == 2 \* rows per partition file (10_000 in the source)

\* a row: the batch it was read in, its index there, and the filter's mask bit
Row(b, r, pass) == [b |-> b, r |-> r, pass |-> pass]

\* RecordBatch::num_rows, RecordBatch::slice
num_rows(batch) == Len(batch)
slice(batch, offset, length) == SubSeq(batch, offset + 1, offset + length)

\* arrow::compute::filter_record_batch with the mask of TextStatFilter
RECURSIVE filter_record_batch(_)
filter_record_batch(batch) ==
    IF batch = <<>> THEN <<>>
    ELSE IF batch[1].pass THEN <<batch[1]>> \o filter_record_batch(Tail(batch))
    ELSE filter_record_batch(Tail(batch))

\* ProcessedBatchResult
BatchOk(batch) == [ok |-> TRUE, batch |-> batch]
BatchErr == [ok |-> FALSE, batch |-> <<>>]

\* mod.rs 94-118: the operators applied to one batch; apply can fail
ApplyOperators(batch) == {BatchOk(filter_record_batch(batch)), BatchErr}

\* the rows of a Vec of batches, in order
RECURSIVE Rows(_)
Rows(bs) == IF bs = <<>> THEN <<>> ELSE bs[1] \o Rows(Tail(bs))

\* Iterator::sum of num_rows
RECURSIVE SumRows(_)
SumRows(bs) == IF bs = <<>> THEN 0 ELSE num_rows(bs[1]) + SumRows(Tail(bs))

\* mod.rs 155-163: the partition files a large batch is split into, and what
\* remains of it
RECURSIVE SplitLarge(_, _)
SplitLarge(remaining, files) ==
    IF num_rows(remaining) > partition_size
    THEN SplitLarge(slice(remaining, partition_size, num_rows(remaining) - partition_size),
                    Append(files, slice(remaining, 0, partition_size)))
    ELSE [remaining |-> remaining, files |-> files]

\* the batches the input can hold: every row is numbered, its mask bit is free
BatchShapes(b) ==
    UNION {{[r \in 1..n |-> Row(b, r, mask[r])] : mask \in [1..n -> BOOLEAN]} :
             n \in 0..MaxBatchRows}

RuntimeInit ==
    /\ rt_pc = "map"
    /\ \E n \in 0..MaxBatches :
         /\ batches \in {bs \in [1..n -> UNION {BatchShapes(b) : b \in 1..MaxBatches}] :
                            \A i \in 1..n : bs[i] \in BatchShapes(i)}
         /\ processed_batches = [i \in 1..n |-> None]
    /\ processed_batches_vec = <<>>
    /\ next_batch = 1
    /\ current_partition = <<>>
    /\ current_partition_rows = 0
    /\ partition_idx = 0
    /\ partition_files = <<>>
    /\ stage_manifest = None

\* the batches of a stage whose filter passes every row
PassingBatches(b) == {[r \in 1..n |-> Row(b, r, TRUE)] : n \in 0..MaxBatchRows}

RECURSIVE StageBatches(_)
StageBatches(n) ==
    IF n = 0 THEN {<<>>}
    ELSE {Append(bs, batch) : bs \in StageBatches(n - 1), batch \in PassingBatches(n)}

StageInit ==
    /\ rt_pc = "map"
    /\ \E n \in 0..MaxBatches :
         /\ batches \in StageBatches(n)
         /\ processed_batches = [i \in 1..n |-> None]
    /\ processed_batches_vec = <<>>
    /\ next_batch = 1
    /\ current_partition = <<>>
    /\ current_partition_rows = 0
    /\ partition_idx = 0
    /\ partition_files = <<>>
    /\ stage_manifest = None

RuntimeIdle ==
    /\ rt_pc = "idle"
    /\ batches = <<>>
    /\ processed_batches = <<>>
    /\ processed_batches_vec = <<>>
    /\ next_batch = 1
    /\ current_partition = <<>>
    /\ current_partition_rows = 0
    /\ partition_idx = 0
    /\ partition_files = <<>>
    /\ stage_manifest = None

\* mod.rs 91-119: a worker thread finishes one batch; into_par_iter().enumerate()
\* .map(..).collect() puts its result in the slot of the batch's index
ProcessBatch ==
    /\ rt_pc = "map"
    /\ \E i \in DOMAIN batches :
         /\ ~IsSome(processed_batches[i])
         /\ \E result \in ApplyOperators(batches[i]) :
              processed_batches' = [processed_batches EXCEPT ![i] = Some(result)]
    /\ UNCHANGED <<rt_pc, batches, processed_batches_vec, next_batch, current_partition,
                   current_partition_rows, partition_idx, partition_files, stage_manifest>>
    /\ UNCHANGED not_runtime

\* mutant: the batches that failed are left out and the stage goes on
CollectedSkippingErrors(results) ==
    [pc |-> "write",
     vec |-> LET oks == SelectSeq(results, LAMBDA r : Unwrap(r).ok)
             IN [i \in 1..Len(oks) |-> Unwrap(oks[i]).batch]]

\* mod.rs 127-139: `result?` on every result in order: the Vec of the batches,
\* or the return of the first Err
Collected(results) ==
    IF \A i \in DOMAIN results : Unwrap(results[i]).ok
    THEN [pc |-> "write", vec |-> [i \in DOMAIN results |-> Unwrap(results[i]).batch]]
    ELSE [pc |-> "failed", vec |-> <<>>]

\* mod.rs 122-139: the results are read in order; the first Err is returned
CollectResults ==
    /\ rt_pc = "map"
    /\ \A i \in DOMAIN batches : IsSome(processed_batches[i])
    /\ processed_batches_vec' = Collected(processed_batches).vec
    /\ rt_pc' = Collected(processed_batches).pc
    /\ UNCHANGED <<batches, processed_batches, next_batch, current_partition,
                   current_partition_rows, partition_idx, partition_files, stage_manifest>>
    /\ UNCHANGED not_runtime

\* mod.rs 150-183: one iteration of the loop over processed_batches_vec;
\* io::write_parquet can fail
WritePartitions ==
    /\ rt_pc = "write"
    /\ next_batch <= Len(processed_batches_vec)
    /\ LET batch == processed_batches_vec[next_batch] IN
       \E written \in BOOLEAN :
         IF num_rows(batch) > partition_size
         THEN \* split large batch
              LET split == SplitLarge(batch, <<>>) IN
              IF written
              THEN /\ partition_files' = partition_files \o split.files
                   /\ partition_idx' = partition_idx + Len(split.files)
                   /\ current_partition' = Append(current_partition, split.remaining)
                   /\ current_partition_rows' =
                        SumRows(Append(current_partition, split.remaining))
                   /\ next_batch' = next_batch + 1
                   /\ UNCHANGED rt_pc
              ELSE /\ rt_pc' = "failed"
                   /\ UNCHANGED <<partition_files, partition_idx, current_partition,
                                  current_partition_rows, next_batch>>
         ELSE IF current_partition_rows + num_rows(batch) > partition_size
         THEN \* write current partition and start new one
              IF written
              THEN /\ partition_files' = Append(partition_files, Rows(current_partition))
                   /\ current_partition' = <<batch>>
                   /\ current_partition_rows' = num_rows(batch)
                   /\ partition_idx' = partition_idx + 1
                   /\ next_batch' = next_batch + 1
                   /\ UNCHANGED rt_pc
              ELSE /\ rt_pc' = "failed"
                   /\ UNCHANGED <<partition_files, partition_idx, current_partition,
                                  current_partition_rows, next_batch>>
         ELSE \* add to current partition
              /\ written
              /\ current_partition' = Append(current_partition, batch)
              /\ current_partition_rows' = current_partition_rows + num_rows(batch)
              /\ next_batch' = next_batch + 1
              /\ UNCHANGED <<rt_pc, partition_files, partition_idx>>
    /\ UNCHANGED <<batches, processed_batches, processed_batches_vec, stage_manifest>>
    /\ UNCHANGED not_runtime

\* mod.rs 185-190: the remaining partition is written
WriteRemaining ==
    /\ rt_pc = "write"
    /\ next_batch > Len(processed_batches_vec)
    /\ \E written \in BOOLEAN :
         IF current_partition # <<>>
         THEN IF written
              THEN /\ partition_files' = Append(partition_files, Rows(current_partition))
                   /\ rt_pc' = "manifest"
              ELSE /\ rt_pc' = "failed"
                   /\ UNCHANGED partition_files
         ELSE /\ written
              /\ rt_pc' = "manifest"
              /\ UNCHANGED partition_files
    /\ UNCHANGED <<batches, processed_batches, processed_batches_vec, next_batch,
                   current_partition, current_partition_rows, partition_idx,
                   stage_manifest>>
    /\ UNCHANGED not_runtime

\* manifest.rs, StageManifest: what the model keeps of it
StageManifest(files, input_rows, output_rows) ==
    [partition_files |-> files, total_input_rows |-> input_rows,
     total_output_rows |-> output_rows]

\* mod.rs 233-248: the stage's manifest is added and manifest.json is written;
\* write_to_file can fail
WriteManifest ==
    /\ rt_pc = "manifest"
    /\ \E written \in BOOLEAN :
         IF written
         THEN /\ stage_manifest' = Some(StageManifest(Len(partition_files),
                                                      SumRows(batches),
                                                      SumRows(processed_batches_vec)))
              /\ rt_pc' = "done"
         ELSE /\ rt_pc' = "failed"
              /\ UNCHANGED stage_manifest
    /\ UNCHANGED <<batches, processed_batches, processed_batches_vec, next_batch,
                   current_partition, current_partition_rows, partition_idx,
                   partition_files>>
    /\ UNCHANGED not_runtime

-----------------------------------------------------------------------------
(* ParquetWriter: the schema it fixes at its first flush and the cells it
   writes. SpecFile above follows the writer's file and counts its records;
   here the records have values and the columns have types. *)

MaxPqWrites == 3    \* write_sample calls on one ParquetWriter

\* serde_json::Value at a key of the record; JMissing: the object has no such key
JMissing == [t |-> "missing", v |-> ""]
JNull == [t |-> "null", v |-> ""]
JString == [t |-> "string", v |-> "ab"]
JI64 == [t |-> "i64", v |-> "7"]
JU64 == [t |-> "u64", v |-> "18446744073709551615"]
JF64 == [t |-> "f64", v |-> "1.5"]
JBool == [t |-> "bool", v |-> "true"]
JArray == [t |-> "array", v |-> "[1]"]

\* the keys of the records, in the order serde_json's Map iterates them
KeyOrder == <<"text", "x", "y">>
PqColumns == {KeyOrder[i] : i \in 1..Len(KeyOrder)}

\* the records written: "text" is a source column, "x" and "y" are columns an
\* annotator may have added
PqSamples ==
    {[c \in PqColumns |-> CASE c = "text" -> JString [] c = "x" -> vx [] c = "y" -> vy] :
        vx \in {JMissing, JNull, JString, JI64, JU64, JF64, JBool, JArray},
        vy \in {JMissing, JI64}}

\* arrow Field::new(name, data_type, true)
Field(name, data_type) == [name |-> name, data_type |-> data_type]

FieldNames(schema) == {schema[i].name : i \in 1..Len(schema)}
FieldOf(schema, name) == schema[CHOOSE i \in 1..Len(schema) : schema[i].name = name]

\* the schemas a writer is created with: the source's columns
InputSchemas ==
    { <<Field("text", "Utf8")>>,
      <<Field("text", "Utf8"), Field("y", "Int64")>>,
      <<Field("text", "Utf8"), Field("y", "List")>> }

\* Value::get
Get(value, name) == IF value[name].t = "missing" THEN None ELSE Some(value[name])

\* Map::keys
ObjKeys(value) == SelectSeq(KeyOrder, LAMBDA k : value[k].t # "missing")

\* parquet.rs 75-79: the keys of one record not yet among the names are pushed
RECURSIVE PushNewNames(_, _)
PushNewNames(names, keys) ==
    IF keys = <<>> THEN names
    ELSE PushNewNames(IF \E i \in 1..Len(names) : names[i] = Head(keys)
                      THEN names ELSE Append(names, Head(keys)),
                      Tail(keys))

\* parquet.rs 66-81: all_field_names
RECURSIVE AllFieldNames(_, _)
AllFieldNames(names, values) ==
    IF values = <<>> THEN names
    ELSE AllFieldNames(PushNewNames(names, ObjKeys(Head(values))), Tail(values))

\* parquet.rs 95-97: values.iter().find_map(|v| v.get(field_name))
FindMapGet(values, name) ==
    LET present == {i \in 1..Len(values) : IsSome(Get(values[i], name))} IN
    IF present = {} THEN None
    ELSE Get(values[CHOOSE i \in present : \A j \in present : i <= j], name)

\* parquet.rs 98-104: the data type of a value
InferDataType(v) ==
    CASE v.t = "string" -> "Utf8"
      [] v.t = "i64" -> "Int64"
      [] v.t \in {"u64", "f64"} -> "Float64"
      [] v.t = "bool" -> "Boolean"
      [] OTHER -> "Utf8"

\* parquet.rs 87-106: the data type of one field
FieldDataType(values, schema, name) ==
    IF name \in FieldNames(schema) THEN FieldOf(schema, name).data_type
    ELSE IF IsSome(FindMapGet(values, name))
         THEN InferDataType(Unwrap(FindMapGet(values, name)))
         ELSE "Utf8"

\* parquet.rs 57-112, build_schema_from_samples
build_schema_from_samples(samples, schema) ==
    LET names == AllFieldNames([i \in 1..Len(schema) |-> schema[i].name], samples) IN
    [i \in 1..Len(names) |-> Field(names[i], FieldDataType(samples, schema, names[i]))]

SupportedTypes == {"Utf8", "Int64", "Float64", "Boolean"}

\* parquet.rs 153-200: the cell a builder appends for one value
Cell(v, data_type) ==
    CASE data_type = "Utf8" -> IF v.t = "string" THEN v ELSE JNull
      [] data_type = "Int64" -> IF v.t = "i64" THEN v ELSE JNull
      [] data_type = "Float64" -> IF v.t = "f64" THEN v ELSE JNull
      [] data_type = "Boolean" -> IF v.t = "bool" THEN v ELSE JNull

\* parquet.rs 132-210, samples_to_batch: Err for a column of another type,
\* else one row of cells for every sample, a cell for every field of the schema
samples_to_batch(samples, target_schema) ==
    IF samples = <<>> \/ \E i \in 1..Len(target_schema) :
                             target_schema[i].data_type \notin SupportedTypes
    THEN None
    ELSE Some([r \in 1..Len(samples) |->
                 [name \in FieldNames(target_schema) |->
                    Cell(samples[r][name], FieldOf(target_schema, name).data_type)]])

\* how the file operations of a flush can end: File::create or
\* ArrowWriter::try_new fails, ArrowWriter::write fails, or none does
FlushOutcomes == {"ok", "create_err", "write_err"}

\* parquet.rs 115-130 with 35-54, ParquetWriter::flush of the buffer: the
\* writer's fields after it and its result
PqFlush(buffer, outcome) ==
    LET unchanged == [actual_schema |-> actual_schema, writer |-> pq_writer,
                      buffer |-> buffer, rows |-> pq_rows,
                      samples_written |-> pq_samples_written, ok |-> TRUE]
        schema == IF pq_writer THEN Unwrap(actual_schema)
                  ELSE build_schema_from_samples(buffer, input_schema)
        inited == [unchanged EXCEPT !.actual_schema = Some(schema)]
        batch == samples_to_batch(buffer, schema)
    IN IF buffer = <<>> THEN unchanged
       ELSE IF ~pq_writer /\ outcome = "create_err" THEN [inited EXCEPT !.ok = FALSE]
       ELSE IF ~IsSome(batch) THEN [inited EXCEPT !.writer = TRUE, !.ok = FALSE]
       ELSE IF outcome = "write_err"
       THEN [inited EXCEPT !.writer = TRUE, !.ok = FALSE,
                           !.samples_written = @ + Len(buffer)]
       ELSE [inited EXCEPT !.writer = TRUE, !.buffer = <<>>,
                           !.rows = @ \o Unwrap(batch),
                           !.samples_written = @ + Len(buffer)]

\* what is recorded of a flush: the buffer it found, whether the ArrowWriter
\* existed before it, and its result
FlushRecord(buffer, fixed, ok) == [buffer |-> buffer, fixed |-> fixed, ok |-> ok]

\* parquet.rs 22-32, ParquetWriter::new
ParquetInit ==
    /\ input_schema \in InputSchemas
    /\ actual_schema = None
    /\ pq_buffer = <<>>
    /\ pq_writer = FALSE
    /\ pq_rows = <<>>
    /\ pq_samples_written = 0
    /\ pq_state = "open"
    /\ pq_calls = 0
    /\ pq_flush = None

ParquetIdle ==
    /\ input_schema = <<>>
    /\ actual_schema = None
    /\ pq_buffer = <<>>
    /\ pq_writer = FALSE
    /\ pq_rows = <<>>
    /\ pq_samples_written = 0
    /\ pq_state = "idle"
    /\ pq_calls = 0
    /\ pq_flush = None

\* the fields of the writer after a flush; a flush that returned Err is the
\* last call made on the writer (execute returns on it, plan.rs 200, 232, 260)
AfterFlush(r, state_if_ok) ==
    /\ actual_schema' = r.actual_schema
    /\ pq_writer' = r.writer
    /\ pq_buffer' = r.buffer
    /\ pq_rows' = r.rows
    /\ pq_samples_written' = r.samples_written
    /\ pq_state' = IF r.ok THEN state_if_ok ELSE "failed"

\* parquet.rs 214-223, ParquetWriter::write_sample: the sample is pushed, and
\* the buffer is flushed when it has reached partition_size
PqWriteSample ==
    /\ pq_state = "open"
    /\ pq_calls < MaxPqWrites
    /\ \E sample \in PqSamples : \E outcome \in FlushOutcomes :
         LET pushed == Append(pq_buffer, sample)
             r == PqFlush(pushed, outcome)
         IN IF Len(pushed) >= PartitionSize
            THEN /\ AfterFlush(r, "open")
                 /\ pq_flush' = Some(FlushRecord(pushed, pq_writer, r.ok))
            ELSE /\ outcome = "ok"
                 /\ pq_buffer' = pushed
                 /\ UNCHANGED <<actual_schema, pq_writer, pq_rows, pq_samples_written,
                                pq_state, pq_flush>>
    /\ pq_calls' = pq_calls + 1
    /\ UNCHANGED input_schema
    /\ UNCHANGED not_parquet

\* parquet.rs 225-239, ParquetWriter::close: the rest of the buffer is flushed,
\* then the ArrowWriter is closed, which can fail
PqClose ==
    /\ pq_state = "open"
    /\ \E outcome \in FlushOutcomes : \E closed \in BOOLEAN :
         LET r == PqFlush(pq_buffer, outcome) IN
         /\ AfterFlush([r EXCEPT !.ok = r.ok /\ (closed \/ ~r.writer)], "closed")
         /\ pq_flush' = IF pq_buffer = <<>> THEN pq_flush
                        ELSE Some(FlushRecord(pq_buffer, pq_writer, r.ok))
    /\ UNCHANGED <<input_schema, pq_calls>>
    /\ UNCHANGED not_parquet

-----------------------------------------------------------------------------
(* Plan::compile: the operators of the plan are built from the pipeline
   entries by the factories of the registry *)

MaxPipeline == 2    \* entries of spec.pipeline

\* the names a pipeline entry can give; the last one has no factory
OperatorNames == {"filter_leq", "text_normalize_transformer", "add_id", "no_such_operator"}

\* operators::register_all
RegisterAll == {"filter_leq", "text_normalize_transformer", "add_id"}

\* serde_yaml::Value of an entry's config: the values at its keys
ConfigKeys == {"col", "value", "text_col", "id_col"}
Config(col, value, text_col) ==
    [k \in ConfigKeys |-> CASE k = "col" -> col [] k = "value" -> value
                            [] k = "text_col" -> text_col [] OTHER -> Absent]

Configs ==
    { Config(Absent, Absent, Absent),
      Config(Str("score"), Num(2), Absent),
      Config(Str("score"), Str("2"), Absent),
      Config(Num(1), Num(2), Absent),
      Config(Absent, Absent, Str("text")) }

\* spec.rs 25-28, OperatorNode
OperatorNode(name, config) == [name |-> name, config |-> config]
OperatorNodes == {OperatorNode(n, c) : n \in OperatorNames, c \in Configs}

\* serde_yaml Value::as_str, Value::as_f64 on config[key]
as_str(config, key) == IF config[key].t = "string" THEN Some(config[key].s) ELSE None
as_f64(config, key) == IF config[key].t = "number" THEN Some(config[key].n) ELSE None

\* Option::unwrap_or
UnwrapOr(o, default) == IF IsSome(o) THEN Unwrap(o) ELSE default

\* what a call of build can give: an operator, an error value, or a panic
Built(op) == [kind |-> "Ok", op |-> op, name |-> ""]
Panicked == [kind |-> "Panic", op |-> AddIdOp, name |-> ""]

\* mutant: the error does not say which operator is unknown
UnknownOperatorUnnamed(name) == [kind |-> "Unknown operator", op |-> AddIdOp, name |-> ""]

\* registry.rs 48: anyhow!("Unknown operator: {}", name)
UnknownOperator(name) == [kind |-> "Unknown operator", op |-> AddIdOp, name |-> name]

\* the factories: leq.rs 23-28, normalize.rs 62-75, add_id.rs 17-21. Option::unwrap
\* panics on None.
Create(name, config) ==
    CASE name = "filter_leq" ->
           IF IsSome(as_str(config, "col")) /\ IsSome(as_f64(config, "value"))
           THEN Built([name |-> name, col |-> Unwrap(as_str(config, "col")),
                       value |-> Unwrap(as_f64(config, "value"))])
           ELSE Panicked
      [] name = "text_normalize_transformer" ->
           IF IsSome(as_str(config, "text_col"))
           THEN Built([name |-> name, col |-> Unwrap(as_str(config, "text_col")), value |-> 0])
           ELSE Panicked
      [] name = "add_id" ->
           Built([name |-> name, col |-> UnwrapOr(as_str(config, "id_col"), "id"),
                  value |-> 0])

\* registry.rs 44-50, OperatorRegistry::build
Build(factories, name, config) ==
    IF name \notin factories THEN UnknownOperator(name) ELSE Create(name, config)

CompileInit ==
    /\ pipeline \in UNION {[1..n -> OperatorNodes] : n \in 0..MaxPipeline}
    /\ registry \in {RegisterAll, RegisterAll \ {"add_id"}}
    /\ cp_operators = <<>>
    /\ cp_pc = "build"
    /\ cp_error = None

CompileIdle ==
    /\ pipeline = <<>>
    /\ registry = {}
    /\ cp_operators = <<>>
    /\ cp_pc = "idle"
    /\ cp_error = None

\* plan.rs 33-37: one iteration of the loop over spec.pipeline
CompileBuild ==
    /\ cp_pc = "build"
    /\ Len(cp_operators) < Len(pipeline)
    /\ LET operator_node == pipeline[Len(cp_operators) + 1]
           built == Build(registry, operator_node.name, operator_node.config)
       IN CASE built.kind = "Ok" ->
                 /\ cp_operators' = Append(cp_operators,
                                           [step_name |-> operator_node.name,
                                            operator |-> built.op])
                 /\ UNCHANGED <<cp_pc, cp_error>>
            [] built.kind = "Panic" ->
                 /\ cp_pc' = "panic"
                 /\ UNCHANGED <<cp_operators, cp_error>>
            [] OTHER ->
                 /\ cp_pc' = "err"
                 /\ cp_error' = Some(built)
                 /\ cp_operators' = <<>>
    /\ UNCHANGED <<pipeline, registry>>
    /\ UNCHANGED not_compile

\* plan.rs 39: Ok(Self { operators, spec })
CompileReturns ==
    /\ cp_pc = "build"
    /\ Len(cp_operators) = Len(pipeline)
    /\ cp_pc' = "ok"
    /\ UNCHANGED <<pipeline, registry, cp_operators, cp_error>>
    /\ UNCHANGED not_compile

\* runner.rs 8-14: run_pipeline calls plan.execute() on the plan compile returned
RunnerExecutes ==
    /\ cp_pc = "ok"
    /\ cp_pc' = "executing"
    /\ UNCHANGED <<pipeline, registry, cp_operators, cp_error>>
    /\ UNCHANGED not_compile

-----------------------------------------------------------------------------
(* WriterFactory::create, the sink execute hands to it for the final writer,
   and the names ShardedWriter gives its shard files *)

MaxShardName == 12  \* the shard ids whose file name is asked for

\* a uri: its path segments, each a name and an extension, and whether a '/'
\* ends it
Seg(name, ext) == [name |-> name, ext |-> ext]
Uri(segs, slash) == [segs |-> segs, slash |-> slash]

\* str::ends_with(".parquet"), (".jsonl"), (".json") on a uri
EndsWith(uri, ext) == ~uri.slash /\ uri.segs[Len(uri.segs)].ext = ext

\* str::trim_end_matches('/')
TrimEndSlash(uri) == [uri EXCEPT !.slash = FALSE]

\* format!("{}/{}", base, name)
Join(uri, seg) == Uri(Append(uri.segs, seg), FALSE)

\* a shard name pattern: its text cut into placeholders and the text between them
Patterns ==
    { <<"x-", "{shard_id:04}", ".", "{ext}">>,
      <<"part-", "{shard_id:08}", ".jsonl">>,
      <<"s", "{shard_id}", ".parquet">>,
      <<"{shard_id:01}", "_", "{shard_id:01}", ".json">>,
      <<"{shard_id}", "-", "{shard_id:04}", ".jsonl">>,
      <<"out", ".jsonl">> }

\* the WIDTH of a {shard_id:WIDTH} placeholder: the capture of sharded.rs 101-103
WidthOf(token) ==
    CASE token = "{shard_id:01}" -> Some(1)
      [] token = "{shard_id:04}" -> Some(4)
      [] token = "{shard_id:08}" -> Some(8)
      [] OTHER -> None

\* the text of a sequence of pieces
RECURSIVE Concat(_)
Concat(pieces) == IF pieces = <<>> THEN "" ELSE Head(pieces) \o Concat(Tail(pieces))

RECURSIVE NumDigits(_)
NumDigits(k) == IF k < 10 THEN 1 ELSE 1 + NumDigits(k \div 10)

RECURSIVE Zeros(_)
Zeros(n) == IF n <= 0 THEN "" ELSE "0" \o Zeros(n - 1)

\* format!("{:0width$}", shard_id, width = width)
ZeroPadded(shard_id, width) == Zeros(width - NumDigits(shard_id)) \o ToString(shard_id)

\* spec.rs 93-108, SinkSpec
SinkSpec(kind, uri, key, n, pattern) ==
    [kind |-> kind, uri |-> uri, shard_key |-> key, samples_per_shard |-> n,
     shard_name_pattern |-> pattern]

SinkSpecs ==
    {SinkSpec(kind, Uri(<<Seg("out", ext)>>, slash), key, n, pattern) :
        kind \in {"parquet", "jsonl", "csv"},
        ext \in {"", ".parquet", ".jsonl", ".json"},
        slash \in BOOLEAN,
        key \in {None, Some(ShardKeyColumn)},
        n \in {0, MaxSamplesPerShard},
        pattern \in {None} \cup {Some(pt) : pt \in Patterns}}

\* sharded.rs 41-88, ShardedWriter::new; create_writer makes `sub` writers
ShardedWriterNew(base_path, key, n, pattern, sub) ==
    LET ends(ext) == IsSome(pattern) /\ Unwrap(pattern)[Len(Unwrap(pattern))] = ext
        extension == IF ends(".parquet") THEN ".parquet"
                     ELSE IF ends(".jsonl") THEN ".jsonl"
                     ELSE IF ends(".json") THEN ".json"
                     ELSE ".jsonl"
    IN [writer |-> "sharded", sub |-> sub, base_path |-> base_path, shard_key |-> key,
        samples_per_shard |-> n, extension |-> extension,
        shard_name_pattern |-> UnwrapOr(pattern, <<"part-", "{shard_id:08}", extension>>)]

\* io.rs 306-320: a JsonlWriter or a ParquetWriter at the uri
SingleWriter(sub, uri) ==
    [writer |-> "single", sub |-> sub, base_path |-> uri, shard_key |-> None,
     samples_per_shard |-> 0, extension |-> "", shard_name_pattern |-> <<>>]

\* io.rs 262-322, WriterFactory::create; `at` tells what the file system holds
\* at spec.uri: "absent", "dir" or "file"
WriterFactoryCreate(spec, at) ==
    LET is_parquet == spec.kind = "parquet" \/ EndsWith(spec.uri, ".parquet")
        is_directory == /\ ~EndsWith(spec.uri, ".parquet")
                        /\ ~EndsWith(spec.uri, ".jsonl")
                        /\ ~EndsWith(spec.uri, ".json")
                        /\ (at = "dir" \/ at = "absent" \/ spec.uri.slash)
        default_pattern == IF is_parquet THEN <<"part-", "{shard_id:08}", ".parquet">>
                           ELSE <<"part-", "{shard_id:08}", ".jsonl">>
    IN IF is_directory
       THEN ShardedWriterNew(spec.uri, spec.shard_key, spec.samples_per_shard,
                             IF IsSome(spec.shard_name_pattern) THEN spec.shard_name_pattern
                             ELSE Some(default_pattern),
                             IF is_parquet THEN "parquet" ELSE "jsonl")
       ELSE IF is_parquet THEN SingleWriter("parquet", spec.uri)
       ELSE IF \/ spec.kind = "jsonl" \/ spec.kind = "json"
               \/ EndsWith(spec.uri, ".jsonl") \/ EndsWith(spec.uri, ".json")
       THEN SingleWriter("jsonl", spec.uri)
       ELSE SingleWriter("parquet", spec.uri)

\* sharded.rs 91-118, get_shard_path: the file name of a shard
get_shard_path(w, shard_id) ==
    LET pattern == w.shard_name_pattern
        with_ext == [i \in DOMAIN pattern |->
                       IF pattern[i] = "{ext}" THEN w.extension ELSE pattern[i]]
        widths == {i \in DOMAIN with_ext : IsSome(WidthOf(with_ext[i]))}
        first == CHOOSE i \in widths : \A j \in widths : i <= j
    IN IF widths # {}
       THEN Concat([with_ext EXCEPT ![first] = ZeroPadded(shard_id, Unwrap(WidthOf(@)))])
       ELSE Concat([i \in DOMAIN with_ext |->
                      IF with_ext[i] = "{shard_id}" THEN ToString(shard_id)
                      ELSE with_ext[i]])

\* plan.rs 63-78: the file name execute derives from the first source uri
FileName(spec, input_ext) ==
    LET extension == IF spec.kind = "parquet" \/ input_ext = ".parquet"
                     THEN ".parquet" ELSE ".jsonl"
    IN Seg("input", IF input_ext \in {".parquet", ".jsonl"} THEN extension ELSE input_ext)

\* plan.rs 59
FinalBase(spec) == Join(TrimEndSlash(spec.uri), Seg("final", ""))

\* plan.rs 212-226: the SinkSpec execute builds for the final writer
FinalSinkSpec(spec, input_ext) ==
    SinkSpec(spec.kind,
             IF spec.samples_per_shard > 0 THEN FinalBase(spec)
             ELSE Join(FinalBase(spec), FileName(spec, input_ext)),
             None, spec.samples_per_shard, spec.shard_name_pattern)

SinkInit ==
    /\ sink \in SinkSpecs
    /\ source_ext \in {".parquet", ".jsonl", ".json"}
    /\ path_state \in {"absent", "dir", "file"}
    /\ sk_pc = "create"
    /\ sk_via = ""
    /\ sk_writer = None
    /\ sk_shard = None

SinkIdle ==
    /\ sink = SinkSpec("", Uri(<<>>, FALSE), None, 0, None)
    /\ source_ext = ""
    /\ path_state = "absent"
    /\ sk_pc = "idle"
    /\ sk_via = ""
    /\ sk_writer = None
    /\ sk_shard = None

\* io.rs 262-322: a caller hands the sink to WriterFactory::create; create_dir_all
\* and the writers' constructors can fail
FactoryCreate ==
    /\ sk_pc = "create"
    /\ sk_via' = "caller"
    /\ \E ok \in BOOLEAN :
         IF ok
         THEN /\ sk_writer' = Some(WriterFactoryCreate(sink, path_state))
              /\ sk_pc' = "made"
         ELSE /\ sk_pc' = "err"
              /\ UNCHANGED sk_writer
    /\ UNCHANGED <<sink, source_ext, path_state, sk_shard>>
    /\ UNCHANGED not_sink

\* plan.rs 205-229: execute creates the final writer. With samples_per_shard > 0
\* the uri is the directory create_dir_all has just made (plan.rs 209).
ExecuteCreatesFinalWriter ==
    /\ sk_pc = "create"
    /\ sk_via' = "execute"
    /\ \E ok \in BOOLEAN :
         IF ok
         THEN /\ sk_writer' = Some(WriterFactoryCreate(
                                     FinalSinkSpec(sink, source_ext),
                                     IF sink.samples_per_shard > 0 THEN "dir" ELSE path_state))
              /\ sk_pc' = "made"
         ELSE /\ sk_pc' = "err"
              /\ UNCHANGED sk_writer
    /\ UNCHANGED <<sink, source_ext, path_state, sk_shard>>
    /\ UNCHANGED not_sink

\* sharded.rs 121-127: get_writer asks for the path of a shard it has no writer for
GetShardPath ==
    /\ sk_pc = "made"
    /\ Unwrap(sk_writer).writer = "sharded"
    /\ \E shard_id \in 0..MaxShardName :
         sk_shard' = Some([shard_id |-> shard_id,
                           path |-> get_shard_path(Unwrap(sk_writer), shard_id)])
    /\ sk_pc' = "named"
    /\ UNCHANGED <<sink, source_ext, path_state, sk_via, sk_writer>>
    /\ UNCHANGED not_sink

-----------------------------------------------------------------------------
(* ColumnFilterReader: the projection a source's `columns` mapping puts around
   a reader. The records are the Samples of Plan::execute above. *)

MaxCfReads == 2     \* next() calls on one ColumnFilterReader

\* Sample::get
get(sample, k) == IF sample[k].t = "absent" THEN None ELSE Some(sample[k])

\* Sample::set_value
set_value(sample, k, v) == [sample EXCEPT ![k] = v]

\* the names a mapping maps, and the names it maps them to
CfNewNames == {"text", "id"}
CfSourceNames == {"text", "score", "id"}

\* the records the inner reader yields: each source column present or not
CfSamples ==
    {[SampleNew EXCEPT !["text"] = t, !["score"] = s, !["id"] = i] :
        t \in {Absent, Str("Ab")}, s \in {Absent, Num(1)}, i \in {Absent, Str("u1")}}

\* what inner.next() can return as Some
CfItems == {OkItem(sample) : sample \in CfSamples} \cup {ErrItem("e1"), ErrItem("e2")}

\* the schemas of the inner reader; a JsonlReader infers its schema from the
\* first line of the file, so later records can have columns it lacks
OriginalSchemas ==
    { <<Field("text", "Utf8"), Field("score", "Float64")>>,
      <<Field("text", "Utf8"), Field("score", "Float64"), Field("id", "Utf8")>> }

\* spec.source.columns.mapping: new_name -> original_name
ColumnMappings == UNION {[new -> CfSourceNames] : new \in SUBSET CfNewNames}

\* column_filter.rs 27-32: the mapped source names the schema has no field for
MissingColumns(schema, mapping) ==
    {mapping[new_name] : new_name \in DOMAIN mapping} \ FieldNames(schema)

\* the orders in which a HashMap can iterate its keys
IterationOrders(keys) ==
    {order \in [1..Cardinality(keys) -> keys] :
        \A i, j \in 1..Cardinality(keys) : i # j => order[i] # order[j]}

\* column_filter.rs 46-64: filtered_schema, its fields in the order the mapping
\* is iterated
FilteredSchema(schema, mapping, order) ==
    IF DOMAIN mapping = {}
    THEN schema
    ELSE [i \in 1..Len(order) |->
            Field(order[i], FieldOf(schema, mapping[order[i]]).data_type)]

\* column_filter.rs 83-88: the loop over the mapping, one entry at a time
RECURSIVE FilterInto(_, _, _, _)
FilterInto(filtered, mapping, new_names, sample) ==
    IF new_names = {} THEN filtered
    ELSE LET new_name == CHOOSE n \in new_names : TRUE
             value == get(sample, mapping[new_name])
         IN FilterInto(IF IsSome(value)
                       THEN set_value(filtered, new_name, Unwrap(value))
                       ELSE filtered,
                       mapping, new_names \ {new_name}, sample)

filter_and_rename_keeping_names(mapping, sample) ==
    [c \in Columns |-> IF c \in DOMAIN mapping THEN sample[c] ELSE Absent]

\* ColumnFilterReader::filter_and_rename
filter_and_rename(mapping, sample) ==
    IF DOMAIN mapping = {}
    THEN sample
    ELSE FilterInto(SampleNew, mapping, DOMAIN mapping, sample)

FilterInit ==
    /\ original_schema \in OriginalSchemas
    /\ column_mapping \in ColumnMappings
    /\ filtered_schema = None
    /\ cf_pc = "new"
    /\ cf_error = None
    /\ cf_read = <<>>
    /\ cf_yielded = <<>>

FilterIdle ==
    /\ original_schema = <<>>
    /\ column_mapping = <<>>
    /\ filtered_schema = None
    /\ cf_pc = "idle"
    /\ cf_error = None
    /\ cf_read = <<>>
    /\ cf_yielded = <<>>

\* ColumnFilterReader::new (column_filter.rs 21-71). The error names the first
\* missing column the iteration over the mapping's values meets.
ColumnFilterNew ==
    /\ cf_pc = "new"
    /\ IF MissingColumns(original_schema, column_mapping) # {}
       THEN /\ cf_pc' = "err"
            /\ \E original_name \in MissingColumns(original_schema, column_mapping) :
                 cf_error' = Some(original_name)
            /\ UNCHANGED filtered_schema
       ELSE /\ cf_pc' = "ready"
            /\ \E order \in IterationOrders(DOMAIN column_mapping) :
                 filtered_schema' =
                     Some(FilteredSchema(original_schema, column_mapping, order))
            /\ UNCHANGED cf_error
    /\ UNCHANGED <<original_schema, column_mapping, cf_read, cf_yielded>>
    /\ UNCHANGED not_filter

\* Iterator::next of ColumnFilterReader (column_filter.rs 97-103): what
\* inner.next() returns is None, Some(Ok(sample)) or Some(Err(e))
ColumnFilterNext ==
    /\ cf_pc = "ready"
    /\ \E inner_next \in {None} \cup
                         {Some(item) : item \in IF Len(cf_read) < MaxCfReads
                                                THEN CfItems ELSE {}} :
         IF IsSome(inner_next)
         THEN /\ cf_read' = Append(cf_read, Unwrap(inner_next))
              /\ cf_yielded' =
                   Append(cf_yielded,
                          IF Unwrap(inner_next).ok
                          THEN OkItem(filter_and_rename(column_mapping,
                                                        Unwrap(inner_next).sample))
                          ELSE Unwrap(inner_next))
              /\ UNCHANGED cf_pc
         ELSE /\ cf_pc' = "done"
              /\ UNCHANGED <<cf_read, cf_yielded>>
    /\ UNCHANGED <<original_schema, column_mapping, filtered_schema, cf_error>>
    /\ UNCHANGED not_filter

-----------------------------------------------------------------------------
(* JsonlReader: one file, read line by line. A line is its text; parsing is
   serde_json's, given here for the texts of the model. *)

MaxLines == 3       \* lines of one JSONL file

LineA == "{\"text\":\"Ab\",\"score\":1}"
LineC == "{\"score\":1}"
LineArray == "[1]"
LineBad == "{bad"
LineBlank == "  "

LineTexts == {LineA, LineC, LineArray, LineBad, LineBlank}

\* the files of the model: every sequence of up to MaxLines lines
JsonlFiles == UNION {[1..n -> LineTexts] : n \in 0..MaxLines}

\* str::trim().is_empty()
TrimIsEmpty(line) == line \in {"", LineBlank}

\* serde_json::Value: an object carries its members, any other value none
ValueObject(sample) == [t |-> "object", obj |-> sample]
ValueOther == [t |-> "array", obj |-> SampleNew]

\* serde_json::from_str::<Value>
from_str(line) ==
    CASE line = LineA -> [ok |-> TRUE, value |-> ValueObject(SampleA)]
      [] line = LineC -> [ok |-> TRUE, value |-> ValueObject(SampleC)]
      [] line = LineArray -> [ok |-> TRUE, value |-> ValueOther]
      [] OTHER -> [ok |-> FALSE, value |-> ValueOther]

\* Sample::from_value (sample.rs 15-21)
from_value(value) == IF value.t = "object" THEN Some(value.obj) ELSE None

\* JsonlReader::json_to_sample: Sample::from_value(value).unwrap_or_default()
json_to_sample(value) == UnwrapOr(from_value(value), SampleNew)

\* the keys of a serde_json Map, in the order it iterates them
MapOrder == <<"error", "id", "score", "text">>

\* JsonlReader::infer_schema (jsonl.rs 43-62); the numbers of the model are i64
infer_schema(value) ==
    IF value.t = "object"
    THEN LET keys == SelectSeq(MapOrder, LAMBDA k : value.obj[k].t # "absent")
         IN [i \in 1..Len(keys) |->
                Field(keys[i], IF value.obj[keys[i]].t = "number" THEN "Int64" ELSE "Utf8")]
    ELSE <<>>

\* jsonl.rs 79-85 and 96-102: the item next returns for a line that is not blank
line_to_item(line) ==
    IF from_str(line).ok
    THEN OkItem(json_to_sample(from_str(line).value))
    ELSE ErrItem("Failed to parse JSON")

JsonlReaderInit ==
    /\ jr_file \in JsonlFiles
    /\ jr_pos = 0
    /\ current_line = None
    /\ jr_schema = <<>>
    /\ jr_pc = "new"
    /\ jr_items = <<>>
    /\ jr_io_failed = FALSE

JsonlReaderIdle ==
    /\ jr_file = <<>>
    /\ jr_pos = 0
    /\ current_line = None
    /\ jr_schema = <<>>
    /\ jr_pc = "idle"
    /\ jr_items = <<>>
    /\ jr_io_failed = FALSE

\* JsonlReader::new (jsonl.rs 18-40): File::open and read_line can fail; the
\* first line is parsed with `?` to infer the schema
JsonlReaderNew ==
    /\ jr_pc = "new"
    /\ \E io_ok \in BOOLEAN :
         LET first_line == IF jr_file = <<>> THEN "" ELSE jr_file[1] IN
         IF ~io_ok
         THEN /\ jr_pc' = "err"
              /\ jr_io_failed' = TRUE
              /\ UNCHANGED <<jr_pos, current_line, jr_schema>>
         ELSE IF ~TrimIsEmpty(first_line) /\ ~from_str(first_line).ok
         THEN /\ jr_pc' = "err"
              /\ jr_pos' = 1
              /\ UNCHANGED <<current_line, jr_schema, jr_io_failed>>
         ELSE /\ jr_pc' = "open"
              /\ jr_pos' = IF jr_file = <<>> THEN 0 ELSE 1
              /\ jr_schema' = IF TrimIsEmpty(first_line) THEN <<>>
                              ELSE infer_schema(from_str(first_line).value)
              /\ current_line' = Some(first_line)
              /\ UNCHANGED jr_io_failed
    /\ UNCHANGED <<jr_file, jr_items>>
    /\ UNCHANGED not_jsonl_reader

\* Iterator::next of JsonlReader (jsonl.rs 73-107), called by a `for` loop,
\* which stops at the first None. A read_line that fails may or may not have
\* consumed the line; the model lets it fail once.
JsonlReaderNext ==
    /\ jr_pc = "open"
    /\ IF IsSome(current_line)
       THEN /\ current_line' = None
            /\ IF TrimIsEmpty(Unwrap(current_line))
               THEN jr_pc' = "ended" /\ UNCHANGED jr_items
               ELSE /\ jr_items' = Append(jr_items, line_to_item(Unwrap(current_line)))
                    /\ UNCHANGED jr_pc
            /\ UNCHANGED <<jr_pos, jr_io_failed>>
       ELSE /\ UNCHANGED current_line
            /\ \E io_ok \in IF jr_io_failed THEN {TRUE} ELSE BOOLEAN :
                 IF ~io_ok
                 THEN /\ jr_items' = Append(jr_items, ErrItem("Failed to read line"))
                      /\ jr_io_failed' = TRUE
                      /\ jr_pos' \in {jr_pos, IF jr_pos < Len(jr_file) THEN jr_pos + 1
                                              ELSE jr_pos}
                      /\ UNCHANGED jr_pc
                 ELSE IF jr_pos = Len(jr_file)
                 THEN /\ jr_pc' = "ended"
                      /\ UNCHANGED <<jr_items, jr_pos, jr_io_failed>>
                 ELSE /\ jr_pos' = jr_pos + 1
                      /\ UNCHANGED jr_io_failed
                      /\ IF TrimIsEmpty(jr_file[jr_pos + 1])
                         THEN jr_pc' = "ended" /\ UNCHANGED jr_items
                         ELSE /\ jr_items' = Append(jr_items,
                                                    line_to_item(jr_file[jr_pos + 1]))
                              /\ UNCHANGED jr_pc
    /\ UNCHANGED <<jr_file, jr_schema>>
    /\ UNCHANGED not_jsonl_reader

-----------------------------------------------------------------------------
(* ParquetReader: the projection it builds from a column mapping, and the rows
   it yields. A row of the file has one value per column of the file. *)

MaxPrRows == 3      \* rows of one parquet file
PrBatchSize == 2    \* rows of one RecordBatch (batch_size)

\* serde_json::Value::Null at a key of a Sample
Null == [t |-> "null", s |-> "", n |-> 0]

\* the schemas of the files: the same columns in two orders, and a file
\* without the column "id"
FileSchemas ==
    { <<Field("text", "Utf8"), Field("score", "Int64"), Field("id", "Utf8")>>,
      <<Field("id", "Utf8"), Field("text", "Utf8"), Field("score", "Int64")>>,
      <<Field("text", "Utf8"), Field("score", "Int64")>> }

\* the rows of the files, by column name
RowA == [text |-> Str("Ab"), score |-> Num(1), id |-> Str("u1")]
RowB == [text |-> Str("ab"), score |-> Num(3), id |-> Str("u2")]

FileRows == UNION {[1..n -> {RowA, RowB}] : n \in 0..MaxPrRows}

\* the index of the field of that name, counted from 0; None if there is none
FieldIndex(schema, name) ==
    IF name \in FieldNames(schema)
    THEN Some((CHOOSE i \in 1..Len(schema) : schema[i].name = name) - 1)
    ELSE None

\* parquet.rs 70-95: the loop over the mapping in the order it is iterated;
\* the result of `find` is None for a missing column
Projection(schema, mapping, order) ==
    [ missing |-> {mapping[order[k]] : k \in 1..Len(order)} \ FieldNames(schema),
      projection_indices |->
          [k \in 1..Len(order) |-> UnwrapOr(FieldIndex(schema, mapping[order[k]]), 0)],
      column_rename |-> [k \in 0..(Len(order) - 1) |-> order[k + 1]],
      new_fields |->
          [k \in 1..Len(order) |->
              Field(order[k],
                    IF mapping[order[k]] \in FieldNames(schema)
                    THEN FieldOf(schema, mapping[order[k]]).data_type ELSE "")] ]

\* ProjectionMask::leaves and with_projection (parquet.rs 101-105): the batches
\* hold the selected columns of the file, each once, in the order of the file
BatchColumns(schema, indices) ==
    SelectSeq([i \in 1..Len(schema) |-> i - 1],
              LAMBDA idx : \E k \in 1..Len(indices) : indices[k] = idx)

\* parquet.rs 147-203: the value of one cell, read as the data type of the
\* reader's field; a failed downcast gives Null
CellValue(data_type, column_type, value) ==
    IF data_type = column_type THEN value ELSE Null

\* the result of row_to_sample: a Sample, or a panic
RowSample(sample) == [panicked |-> FALSE, sample |-> sample]
RowPanic == [panicked |-> TRUE, sample |-> SampleNew]

\* parquet.rs 133-205: the loop over the fields of the reader's schema
RECURSIVE RowInto(_, _, _, _, _, _, _)
RowInto(map, col_idx, fields, rename, columns, file_schema, row) ==
    IF col_idx >= Len(fields) THEN RowSample(map)
    ELSE IF col_idx >= Len(columns) THEN RowPanic   \* batch.column(col_idx)
    ELSE LET field == fields[col_idx + 1]
             file_field == file_schema[columns[col_idx + 1] + 1]
             col_name == IF IsSome(rename) /\ col_idx \in DOMAIN Unwrap(rename)
                         THEN Unwrap(rename)[col_idx] ELSE field.name
             value == CellValue(field.data_type, file_field.data_type,
                                row[file_field.name])
         IN RowInto(set_value(map, col_name, value), col_idx + 1, fields, rename,
                    columns, file_schema, row)

\* ParquetReader::row_to_sample
row_to_sample(fields, rename, columns, file_schema, row) ==
    RowInto(SampleNew, 0, fields, rename, columns, file_schema, row)

ParquetReaderInit ==
    /\ pr_file_schema \in FileSchemas
    /\ pr_rows \in FileRows
    /\ pr_mapping \in ColumnMappings
    /\ pr_schema = <<>>
    /\ projection_indices = <<>>
    /\ column_rename = None
    /\ current_batch = None
    /\ current_row = 0
    /\ pr_next_row = 0
    /\ pr_pc = "new"
    /\ pr_items = <<>>
    /\ pr_io_failed = FALSE

ParquetReaderIdle ==
    /\ pr_file_schema = <<>>
    /\ pr_rows = <<>>
    /\ pr_mapping = <<>>
    /\ pr_schema = <<>>
    /\ projection_indices = <<>>
    /\ column_rename = None
    /\ current_batch = None
    /\ current_row = 0
    /\ pr_next_row = 0
    /\ pr_pc = "idle"
    /\ pr_items = <<>>
    /\ pr_io_failed = FALSE

\* ParquetReader::with_options (parquet.rs 45-122). File::open, try_new and
\* build can fail; an empty mapping is no mapping (io.rs 73-77).
ParquetReaderWithOptions ==
    /\ pr_pc = "new"
    /\ \E io_ok \in BOOLEAN : \E order \in IterationOrders(DOMAIN pr_mapping) :
         LET p == Projection(pr_file_schema, pr_mapping, order) IN
         IF ~io_ok
         THEN /\ pr_pc' = "err"
              /\ pr_io_failed' = TRUE
              /\ UNCHANGED <<pr_schema, projection_indices, column_rename>>
         ELSE IF DOMAIN pr_mapping = {}
         THEN /\ pr_pc' = "open"
              /\ pr_schema' = pr_file_schema
              /\ projection_indices' = [i \in 1..Len(pr_file_schema) |-> i - 1]
              /\ UNCHANGED <<column_rename, pr_io_failed>>
         ELSE IF p.missing # {}
         THEN /\ pr_pc' = "err"
              /\ UNCHANGED <<pr_schema, projection_indices, column_rename, pr_io_failed>>
         ELSE /\ pr_pc' = "open"
              /\ pr_schema' = p.new_fields
              /\ projection_indices' = p.projection_indices
              /\ column_rename' = Some(p.column_rename)
              /\ UNCHANGED pr_io_failed
    /\ UNCHANGED <<pr_file_schema, pr_rows, pr_mapping, current_batch, current_row,
                   pr_next_row, pr_items>>
    /\ UNCHANGED not_parquet_reader

\* Iterator::next of ParquetReader (parquet.rs 233-251) with ensure_batch
\* (211-229). current_batch holds the rows of the batch; the read of a batch
\* can fail, in the model once.
ParquetReaderNext ==
    /\ pr_pc = "open"
    /\ LET have_row == IsSome(current_batch) /\ current_row < Len(Unwrap(current_batch))
           columns == BatchColumns(pr_file_schema, projection_indices)
           Yield(batch, row_idx) ==
               LET r == row_to_sample(pr_schema, column_rename, columns,
                                      pr_file_schema, batch[row_idx + 1])
               IN IF r.panicked
                  THEN /\ pr_pc' = "panic"
                       /\ UNCHANGED <<pr_items, current_row>>
                  ELSE /\ pr_items' = Append(pr_items, OkItem(r.sample))
                       /\ current_row' = row_idx + 1
                       /\ UNCHANGED pr_pc
       IN IF have_row
          THEN /\ Yield(Unwrap(current_batch), current_row)
               /\ UNCHANGED <<current_batch, pr_next_row, pr_io_failed>>
          ELSE \E io_ok \in IF pr_io_failed THEN {TRUE} ELSE BOOLEAN :
                 IF ~io_ok
                 THEN /\ pr_items' = Append(pr_items, ErrItem("Error reading batch"))
                      /\ pr_io_failed' = TRUE
                      /\ UNCHANGED <<current_batch, current_row, pr_next_row, pr_pc>>
                 ELSE IF pr_next_row >= Len(pr_rows)
                 THEN /\ pr_pc' = "ended"
                      /\ UNCHANGED <<current_batch, current_row, pr_next_row, pr_items,
                                     pr_io_failed>>
                 ELSE LET last == IF pr_next_row + PrBatchSize < Len(pr_rows)
                                  THEN pr_next_row + PrBatchSize ELSE Len(pr_rows)
                          batch == SubSeq(pr_rows, pr_next_row + 1, last)
                      IN /\ current_batch' = Some(batch)
                         /\ pr_next_row' = last
                         /\ Yield(batch, 0)
                         /\ UNCHANGED pr_io_failed
    /\ UNCHANGED <<pr_file_schema, pr_rows, pr_mapping, pr_schema, projection_indices,
                   column_rename>>
    /\ UNCHANGED not_parquet_reader

-----------------------------------------------------------------------------
(* MultiFileReader: several readers read one after the other. An inner reader
   is its schema, the items it yields before its first None, and how many of
   them it has yielded. *)

MaxReaders == 2     \* readers of one MultiFileReader
MaxReaderItems == 2 \* items one inner reader yields

\* the schemas of the inner readers: one schema, the same with another type,
\* and the same with its fields in another order
ReaderSchemas ==
    { <<Field("text", "Utf8"), Field("score", "Int64")>>,
      <<Field("text", "Utf8"), Field("score", "Float64")>>,
      <<Field("score", "Int64"), Field("text", "Utf8")>> }

\* the j-th item of reader k: a record that names both, or an error that does
ReaderItem(k, j, is_err) ==
    IF is_err THEN ErrItem("e" \o ToString(k) \o ToString(j))
    ELSE OkItem(set_str(SampleNew, "id", ToString(k) \o "-" \o ToString(j)))

\* the inner readers that can stand at place k: up to MaxReaderItems items, at
\* most one of them an error
InnerReaders(k) ==
    {[schema |-> schema,
      items |-> [j \in 1..n |-> ReaderItem(k, j, j = e)],
      pos |-> 0] :
        schema \in ReaderSchemas, n \in 0..MaxReaderItems, e \in 0..MaxReaderItems}

RECURSIVE ReaderVecs(_)
ReaderVecs(n) ==
    IF n = 0 THEN {<<>>}
    ELSE {Append(rs, r) : rs \in ReaderVecs(n - 1), r \in InnerReaders(n)}

\* mutant: the types of the fields are not compared
schemas_compatible_names_only(schema1, schema2) ==
    IF Len(schema1) # Len(schema2) THEN FALSE
    ELSE \A i \in 1..Len(schema1) : schema1[i].name = schema2[i].name

\* schemas_compatible (multi_file.rs 45-57)
schemas_compatible(schema1, schema2) ==
    IF Len(schema1) # Len(schema2) THEN FALSE
    ELSE \A i \in 1..Len(schema1) :
            ~(schema1[i].name # schema2[i].name
              \/ schema1[i].data_type # schema2[i].data_type)

\* the inner reader's next() returns None
Exhausted(reader) == reader.pos >= Len(reader.items)

\* multi_file.rs 64-71: the while loop moves past every reader that returns None
RECURSIVE Advance(_, _)
Advance(readers, index) ==
    IF index < Len(readers) /\ Exhausted(readers[index + 1])
    THEN Advance(readers, index + 1)
    ELSE index

MultiFileInit ==
    /\ \E n \in 0..MaxReaders : mf_readers \in ReaderVecs(n)
    /\ current_reader_index = 0
    /\ mf_schema = None
    /\ mf_pc = "new"
    /\ mf_error = None
    /\ mf_yielded = <<>>

MultiFileIdle ==
    /\ mf_readers = <<>>
    /\ current_reader_index = 0
    /\ mf_schema = None
    /\ mf_pc = "idle"
    /\ mf_error = None
    /\ mf_yielded = <<>>

\* MultiFileReader::new (multi_file.rs 15-41); the error names the first reader
\* whose schema is not compatible
MultiFileNew ==
    /\ mf_pc = "new"
    /\ IF mf_readers = <<>>
       THEN /\ mf_pc' = "err"
            /\ mf_error' = Some("MultiFileReader requires at least one reader")
            /\ UNCHANGED mf_schema
       ELSE LET schema == mf_readers[1].schema
                bad == {idx \in 1..(Len(mf_readers) - 1) :
                          ~schemas_compatible(schema, mf_readers[idx + 1].schema)}
            IN IF bad # {}
               THEN /\ mf_pc' = "err"
                    /\ mf_error' = Some("Reader "
                         \o ToString(CHOOSE idx \in bad : \A other \in bad : idx <= other)
                         \o " has incompatible schema with the first reader")
                    /\ UNCHANGED mf_schema
               ELSE /\ mf_pc' = "open"
                    /\ mf_schema' = Some(schema)
                    /\ UNCHANGED mf_error
    /\ UNCHANGED <<mf_readers, current_reader_index, mf_yielded>>
    /\ UNCHANGED not_multi_file

\* Iterator::next of MultiFileReader (multi_file.rs 62-75)
MultiFileNext ==
    /\ mf_pc = "open"
    /\ LET index == Advance(mf_readers, current_reader_index) IN
       /\ current_reader_index' = index
       /\ IF index < Len(mf_readers) /\ ~Exhausted(mf_readers[index + 1])
          THEN LET reader == mf_readers[index + 1] IN
               /\ mf_yielded' = Append(mf_yielded, reader.items[reader.pos + 1])
               /\ mf_readers' = [mf_readers EXCEPT ![index + 1].pos = @ + 1]
               /\ UNCHANGED mf_pc
          ELSE /\ mf_pc' = "ended"
               /\ UNCHANGED <<mf_readers, mf_yielded>>
    /\ UNCHANGED <<mf_schema, mf_error>>
    /\ UNCHANGED not_multi_file

-----------------------------------------------------------------------------
Init ==
    /\ EngineInit /\ ShardedIdle /\ FileIdle /\ RuntimeIdle /\ ParquetIdle /\ CompileIdle
    /\ SinkIdle /\ FilterIdle
    /\ JsonlReaderIdle
    /\ ParquetReaderIdle
    /\ MultiFileIdle

Next == EngineNext

Spec == Init /\ [][Next]_vars

InitSharded ==
    /\ ShardedInit /\ EngineIdle /\ FileIdle /\ RuntimeIdle /\ ParquetIdle /\ CompileIdle
    /\ SinkIdle /\ FilterIdle
    /\ JsonlReaderIdle
    /\ ParquetReaderIdle
    /\ MultiFileIdle

NextSharded ==
    \/ WriteSampleKeyed
    \/ WriteSampleSequential
    \/ ShardedClose

SpecSharded == InitSharded /\ [][NextSharded]_vars

InitFile ==
    /\ FileInit /\ EngineIdle /\ ShardedIdle /\ RuntimeIdle /\ ParquetIdle /\ CompileIdle
    /\ SinkIdle /\ FilterIdle
    /\ JsonlReaderIdle
    /\ ParquetReaderIdle
    /\ MultiFileIdle

NextFile ==
    \/ JsonlWriteSample
    \/ JsonlClose
    \/ ParquetWriteSample
    \/ ParquetClose

SpecFile == InitFile /\ [][NextFile]_vars

InitRuntime ==
    /\ RuntimeInit /\ EngineIdle /\ ShardedIdle /\ FileIdle /\ ParquetIdle /\ CompileIdle
    /\ SinkIdle /\ FilterIdle
    /\ JsonlReaderIdle
    /\ ParquetReaderIdle
    /\ MultiFileIdle

NextRuntime ==
    \/ ProcessBatch
    \/ CollectResults
    \/ WritePartitions
    \/ WriteRemaining
    \/ WriteManifest

SpecRuntime == InitRuntime /\ [][NextRuntime]_vars

\* one stage over batches whose rows all pass the filter
InitStage ==
    /\ StageInit /\ EngineIdle /\ ShardedIdle /\ FileIdle /\ ParquetIdle /\ CompileIdle
    /\ SinkIdle /\ FilterIdle
    /\ JsonlReaderIdle
    /\ ParquetReaderIdle
    /\ MultiFileIdle

SpecStage == InitStage /\ [][NextRuntime]_vars

InitParquet ==
    /\ ParquetInit /\ EngineIdle /\ ShardedIdle /\ FileIdle /\ RuntimeIdle
    /\ CompileIdle /\ SinkIdle /\ FilterIdle
    /\ JsonlReaderIdle
    /\ ParquetReaderIdle
    /\ MultiFileIdle

NextParquet ==
    \/ PqWriteSample
    \/ PqClose

SpecParquet == InitParquet /\ [][NextParquet]_vars

InitCompile ==
    /\ CompileInit /\ EngineIdle /\ ShardedIdle /\ FileIdle /\ RuntimeIdle
    /\ ParquetIdle /\ SinkIdle /\ FilterIdle
    /\ JsonlReaderIdle
    /\ ParquetReaderIdle
    /\ MultiFileIdle

NextCompile ==
    \/ CompileBuild
    \/ CompileReturns
    \/ RunnerExecutes

SpecCompile == InitCompile /\ [][NextCompile]_vars

InitSink ==
    /\ SinkInit /\ EngineIdle /\ ShardedIdle /\ FileIdle /\ RuntimeIdle
    /\ ParquetIdle /\ CompileIdle /\ FilterIdle
    /\ JsonlReaderIdle
    /\ ParquetReaderIdle
    /\ MultiFileIdle

NextSink ==
    \/ FactoryCreate
    \/ ExecuteCreatesFinalWriter
    \/ GetShardPath

SpecSink == InitSink /\ [][NextSink]_vars

InitFilter ==
    /\ FilterInit /\ EngineIdle /\ ShardedIdle /\ FileIdle /\ RuntimeIdle
    /\ ParquetIdle /\ CompileIdle /\ SinkIdle
    /\ JsonlReaderIdle
    /\ ParquetReaderIdle
    /\ MultiFileIdle

NextFilter ==
    \/ ColumnFilterNew
    \/ ColumnFilterNext

SpecFilter == InitFilter /\ [][NextFilter]_vars

InitJsonlReader ==
    /\ JsonlReaderInit
    /\ CompileIdle /\ EngineIdle /\ FileIdle /\ FilterIdle
    /\ ParquetIdle /\ RuntimeIdle /\ ShardedIdle /\ SinkIdle
    /\ ParquetReaderIdle
    /\ MultiFileIdle

NextJsonlReader ==
    \/ JsonlReaderNew
    \/ JsonlReaderNext

SpecJsonlReader == InitJsonlReader /\ [][NextJsonlReader]_vars

InitParquetReader ==
    /\ ParquetReaderInit
    /\ CompileIdle /\ EngineIdle /\ FileIdle /\ FilterIdle
    /\ JsonlReaderIdle /\ ParquetIdle /\ RuntimeIdle /\ ShardedIdle
    /\ SinkIdle
    /\ MultiFileIdle

NextParquetReader ==
    \/ ParquetReaderWithOptions
    \/ ParquetReaderNext

SpecParquetReader == InitParquetReader /\ [][NextParquetReader]_vars

InitMultiFile ==
    /\ MultiFileInit
    /\ CompileIdle /\ EngineIdle /\ FileIdle /\ FilterIdle
    /\ JsonlReaderIdle /\ ParquetIdle /\ ParquetReaderIdle /\ RuntimeIdle
    /\ ShardedIdle /\ SinkIdle

NextMultiFile ==
    \/ MultiFileNew
    \/ MultiFileNext

SpecMultiFile == InitMultiFile /\ [][NextMultiFile]_vars

\* the sinks of a run: the writers of execute, and a ShardedWriter
InitSinks == Init \/ InitSharded

NextSinks ==
    \/ ReaderYieldsOk
    \/ ReaderYieldsErr
    \/ ReaderEnds
    \/ ProcessStep
    \/ WriteTrace
    \/ SkipTrace
    \/ WriteFinal
    \/ WriteError
    \/ CloseStepWriter
    \/ CloseFinalWriter
    \/ CloseErrWriter
    \/ WriteSampleKeyed
    \/ WriteSampleSequential
    \/ ShardedClose

SpecSinks == InitSinks /\ [][NextSinks]_vars

-----------------------------------------------------------------------------
(* What the writers of a run hold *)

Positions == 1 .. Len(inputs)

SamplesOf(wopt) == IF IsSome(wopt) THEN Unwrap(wopt).samples ELSE <<>>
FinalEntries == SamplesOf(final_writer)
ErrorEntries == SamplesOf(err_writer)
TraceEntries(k) == SamplesOf(step_writers[k])

\* how many entries of a sequence come from reader position p
CountIn(entries, p) == Cardinality({i \in 1..Len(entries) : entries[i].pos = p})

RECURSIVE TraceCountUpTo(_, _)
TraceCountUpTo(n, p) ==
    IF n = 0 THEN 0 ELSE TraceCountUpTo(n - 1, p) + CountIn(TraceEntries(n - 1), p)

TraceCount(p) == TraceCountUpTo(NumOps, p)

\* the write_sample calls made for reader position p, over all writers
WritesOf(p) == CountIn(FinalEntries, p) + CountIn(ErrorEntries, p) + TraceCount(p)

LastCall(p) == calls[p][Len(calls[p])]

\* position p was dropped or failed at some step
Filtered(p) == Len(calls[p]) > 0 /\ LastCall(p).result.kind # "Kept"

\* the iteration of the reader loop for position p has ended
Completed(p) == p <= total_input_documents

-----------------------------------------------------------------------------
(* C1 *)

\* C1, as claimed: after execute has returned Ok, every reader position has
\* exactly one record in final, trace and error together.
C1_PartitionAnyRun ==
    pc = "done" => \A p \in Positions : WritesOf(p) = 1

\* C1, amended: after execute has returned Ok, with tracing enabled every reader
\* position has exactly one record in final, trace and error together; with
\* tracing disabled a position dropped or failed at a step has none and every
\* other position has exactly one.
C1_Partition ==
    pc = "done" =>
        \A p \in Positions :
            WritesOf(p) = IF enable_trace \/ ~Filtered(p) THEN 1 ELSE 0

C1_Witness ==
    /\ pc = "done"
    /\ enable_trace
    /\ Len(inputs) = 2
    /\ Len(FinalEntries) = 1
    /\ \E k \in Steps : Len(TraceEntries(k)) = 1

-----------------------------------------------------------------------------
(* C2 *)

\* C2: at every point of a run, no reader position has more than one
\* write_sample call over the final, trace and error writers together.
C2_AtMostOnce ==
    \A p \in Positions : WritesOf(p) <= 1

C2_Witness ==
    /\ Len(ErrorEntries) = 1
    /\ \E k \in Steps : Len(TraceEntries(k)) = 1
    /\ \A p \in Positions : WritesOf(p) = 1

-----------------------------------------------------------------------------
(* C3 *)

\* C3: every record in the trace writer of step i comes from a position on
\* which operators 0..i-1 returned Kept and operator i, the last one called,
\* did not; and no position is in the trace writers more than once.
C3_StepAttribution ==
    /\ \A k \in Steps : \A i \in 1..Len(TraceEntries(k)) :
         LET p == TraceEntries(k)[i].pos IN
         /\ Len(calls[p]) = k + 1
         /\ \A j \in 1..k : calls[p][j].step = j - 1 /\ calls[p][j].result.kind = "Kept"
         /\ calls[p][k + 1].step = k
         /\ calls[p][k + 1].result.kind # "Kept"
    /\ \A p \in Positions : TraceCount(p) <= 1

C3_Witness ==
    /\ NumOps = 2
    /\ Len(TraceEntries(1)) = 1
    /\ Len(TraceEntries(0)) = 1

-----------------------------------------------------------------------------
(* C4 *)

\* the input the j-th call on position p must have received
ChainInput(p, j) == IF j = 1 THEN inputs[p].sample ELSE calls[p][j - 1].result.rec

\* C4: every record in the final writer is the result of calling every operator
\* of the plan once, in declared order, each on the value the previous one
\* returned, each returning Kept; with no operators it is the record read.
C4_SurvivorSemantics ==
    \A i \in 1..Len(FinalEntries) :
        LET p == FinalEntries[i].pos
            c == calls[p]
        IN /\ inputs[p].ok
           /\ Len(c) = NumOps
           /\ \A j \in 1..NumOps :
                /\ c[j].step = j - 1
                /\ c[j].input = ChainInput(p, j)
                /\ c[j].result.kind = "Kept"
                /\ c[j].result \in Process(operators[j], c[j].input)
           /\ FinalEntries[i].rec = ChainInput(p, NumOps + 1)

\* a survivor that two operators changed: lowercased and given an id
C4_Witness ==
    /\ NumOps = 2
    /\ \E i \in 1..Len(FinalEntries) :
         /\ inputs[FinalEntries[i].pos].sample = SampleA
         /\ FinalEntries[i].rec["text"] = Str("ab")
         /\ FinalEntries[i].rec["id"].t = "string"

C4_WitnessIdentity ==
    /\ NumOps = 0
    /\ Len(FinalEntries) = 2

-----------------------------------------------------------------------------
(* C5 *)

\* C5: the record in the trace writer of step i is the input of the call of
\* operator i, which is the record read when i = 0 and otherwise the record
\* returned by operator i-1; it holds nothing operator i did.
C5_TraceIsPreStep ==
    \A k \in Steps : \A i \in 1..Len(TraceEntries(k)) :
        LET e == TraceEntries(k)[i] IN
        /\ Len(calls[e.pos]) >= k + 1
        /\ e.rec = calls[e.pos][k + 1].input
        /\ e.rec = ChainInput(e.pos, k + 1)

\* a record annotated at step 0 and dropped at step 1 is traced with the annotation
C5_Witness ==
    /\ NumOps = 2
    /\ operators[1] = AddIdOp
    /\ \E i \in 1..Len(TraceEntries(1)) :
         LET e == TraceEntries(1)[i] IN
         /\ e.rec["id"].t = "string"
         /\ inputs[e.pos].sample["id"].t = "absent"

-----------------------------------------------------------------------------
(* C6 *)

\* the entries of a sequence that come from reader position p
EntriesOf(entries, p) == {entries[i] : i \in {j \in 1..Len(entries) : entries[j].pos = p}}

WriterErrors == {"mkdir_err", "create_err", "write_err", "close_err"}

\* C6, as claimed: once the iteration of a record on which step i failed has
\* ended, the pre-step record is in the trace writer of step i.
C6_FailedIsTraced ==
    \A p \in Positions :
        (Completed(p) /\ Len(calls[p]) > 0 /\ LastCall(p).result.kind = "Failed") =>
            EntriesOf(TraceEntries(LastCall(p).step), p) = {Entry(p, LastCall(p).input)}

\* C6, amended: Failed and Dropped at step i are routed alike: with tracing
\* enabled the pre-step record is the one record written for that position, in
\* the trace writer of step i, and with tracing disabled nothing is written for
\* it; either way the drop counter of step i counts it, and execute returns an
\* error only for a writer's error. If tracing is enabled and step 0 fails on
\* every record of a completed run, all of them are in trace step 0 and no
\* final and no error writer was created.
C6_FailedLikeDropped ==
    /\ \A p \in Positions :
         (Completed(p) /\ Filtered(p)) =>
            IF enable_trace
            THEN /\ EntriesOf(TraceEntries(LastCall(p).step), p) = {Entry(p, LastCall(p).input)}
                 /\ WritesOf(p) = 1
            ELSE WritesOf(p) = 0
    /\ \A k \in Steps :
         documents_removed_at_step[k] =
            Cardinality({p \in Positions : Filtered(p) /\ LastCall(p).step = k})
    /\ (pc = "failed") => (IsSome(returned) /\ Unwrap(returned) \in WriterErrors)
    /\ (/\ pc = "done"
        /\ enable_trace
        /\ \A p \in Positions :
             inputs[p].ok /\ Len(calls[p]) = 1 /\ LastCall(p).result.kind = "Failed")
       => (/\ ~IsSome(final_writer)
           /\ ~IsSome(err_writer)
           /\ Len(inputs) > 0 => Len(TraceEntries(0)) = Len(inputs))

\* step 0 failed on both records of a completed run
C6_Witness ==
    /\ pc = "done"
    /\ enable_trace
    /\ Len(inputs) = 2
    /\ \A p \in Positions : Len(calls[p]) = 1 /\ LastCall(p).result.kind = "Failed"
    /\ Len(TraceEntries(0)) = 2

-----------------------------------------------------------------------------
(* C7 *)

\* C7: for a reader item that is an error no operator is called and, once its
\* iteration has ended, the error writer holds exactly one record for it, whose
\* only field is the string `error`; no other writer holds one; a record read
\* successfully is never in the error writer; and total_input_documents counts
\* every item whose iteration has ended.
C7_ReaderErrors ==
    /\ \A p \in Positions :
         IF inputs[p].ok
         THEN CountIn(ErrorEntries, p) = 0
         ELSE /\ calls[p] = <<>>
              /\ CountIn(FinalEntries, p) = 0
              /\ TraceCount(p) = 0
              /\ Completed(p) =>
                   /\ CountIn(ErrorEntries, p) = 1
                   /\ \A e \in EntriesOf(ErrorEntries, p) :
                        /\ Keys(e.rec) = {"error"}
                        /\ get_str(e.rec, "error") = Some(inputs[p].err)
    /\ pc = "loop" => total_input_documents = Len(inputs)
    /\ pc \in {"step", "route", "error"} => total_input_documents = Len(inputs) - 1

\* an error item, then a record that was processed after it
C7_Witness ==
    /\ Len(inputs) = 2
    /\ ~inputs[1].ok
    /\ inputs[2].ok
    /\ total_input_documents = 2
    /\ Len(ErrorEntries) = 1
    /\ Len(FinalEntries) = 1

-----------------------------------------------------------------------------
(* C8 *)

\* one step of execute, seen from the calls made on each reader position
C8_Step ==
    /\ \A p \in 1..Len(calls) :
         calls'[p] # calls[p] =>
            /\ p = CurPos
            /\ pc = "step"
            /\ Len(calls'[p]) = Len(calls[p]) + 1
            /\ SubSeq(calls'[p], 1, Len(calls[p])) = calls[p]
            /\ Len(calls[p]) > 0 => LastCall(p).result.kind = "Kept"
            /\ LET c == calls'[p][Len(calls'[p])] IN
               /\ c.step = Len(calls[p])
               /\ c.step = step_idx
               /\ c.input = ChainInput(p, Len(calls[p]) + 1)
               /\ IF c.result.kind = "Kept"
                  THEN /\ sample_opt' = Some(c.result.rec)
                       /\ filtered_at_step' = None
                       /\ IF c.step + 1 < NumOps
                          THEN pc' = "step" /\ step_idx' = c.step + 1
                          ELSE pc' = "route"
                  ELSE /\ pc' = "route"
                       /\ filtered_at_step' = Some(c.step)
    /\ (pc = "step" /\ pc' # "step") => calls'[CurPos] # calls[CurPos]
    /\ (pc = "step" /\ step_idx' # step_idx) => calls'[CurPos] # calls[CurPos]

-----------------------------------------------------------------------------
(* What the shards of a ShardedWriter hold *)

ShardIds == DOMAIN writers
ShardLen(k) == Len(writers[k].samples)
LastShard == CHOOSE k \in ShardIds : \A j \in ShardIds : j <= k

\* the records of shard k whose shard key value is v
KeyedIn(k, v) ==
    {i \in 1..ShardLen(k) : writers[k].samples[i].rec[ShardKeyColumn] = Str(v)}

BaseShard(v) == hash_of[v] % ShardBuckets

RECURSIVE TotalLen(_)
TotalLen(ids) ==
    IF ids = {} THEN 0
    ELSE LET k == CHOOSE x \in ids : TRUE IN ShardLen(k) + TotalLen(ids \ {k})

\* no write_sample call has lost its record to a create_writer error
NoRecordLost == TotalLen(ShardIds) = sw_written

-----------------------------------------------------------------------------
(* C9 *)

\* C9: without a shard key, after write_sample calls followed by close, every
\* shard but the last holds exactly samples_per_shard records and the last
\* holds at most samples_per_shard.
C9_ShardedSizeBound ==
    (sw_state = "closed" /\ ~IsSome(shard_key) /\ ShardIds # {} /\ NoRecordLost) =>
        \A k \in ShardIds :
            IF k = LastShard
            THEN ShardLen(k) <= samples_per_shard
            ELSE ShardLen(k) = samples_per_shard

-----------------------------------------------------------------------------
(* C10 *)

\* C10: with a shard key, the records of one key value lie in the shards
\* base, base+1, ... of that key value, none left out, and each of these shards
\* holds at most samples_per_shard of them.
C10_KeyedSizeBound ==
    (IsSome(shard_key) /\ NoRecordLost) =>
        \A v \in KeyValues : \A k \in ShardIds :
            /\ Cardinality(KeyedIn(k, v)) <= samples_per_shard
            /\ KeyedIn(k, v) # {} =>
                 /\ k >= BaseShard(v)
                 /\ \A j \in BaseShard(v)..k : j \in ShardIds /\ KeyedIn(j, v) # {}

-----------------------------------------------------------------------------
(* C11 *)

\* the shard ids that hold a record whose shard key value is v
KeyShards(v) == {k \in ShardIds : KeyedIn(k, v) # {}}

Contiguous(S) == \A a \in S : \A b \in S : \A j \in a..b : j \in S

\* C11: with a shard key, after any sequence of write_sample calls, the shard
\* ids that received a record of one key value form a contiguous range.
C11_KeyContiguous ==
    IsSome(shard_key) => \A v \in KeyValues : Contiguous(KeyShards(v))

\* one key value whose records lie in two shards
C11_Witness ==
    /\ IsSome(shard_key)
    /\ \E v \in KeyValues : Cardinality(KeyShards(v)) = 2

-----------------------------------------------------------------------------
(* C12 *)

\* C12: at every point of a ShardedWriter's life, a sub-writer exists for a
\* shard id only if a write_sample call has been routed to that shard: no
\* sub-writer is created ahead of the first record of its shard.
C12_LazyShards ==
    sw_state # "idle" => \A k \in ShardIds : k \in sw_routed

\* two shards were opened, one after the other
C12_Witness ==
    /\ sw_state = "open"
    /\ ~IsSome(shard_key)
    /\ ShardIds = {0, 1}
    /\ ShardLen(0) > 0 /\ ShardLen(1) > 0

-----------------------------------------------------------------------------
(* C13 *)

\* C13: once ShardedWriter::close has returned, every sub-writer that was
\* opened has been closed, and if it returned Ok its value is true iff a
\* sub-writer's close reported data.
C13_CloseClosesAll ==
    sw_state \in {"closed", "close_failed"} =>
        /\ \A k \in ShardIds : writers[k].closed
        /\ sw_state = "closed" =>
              (has_any_data <=> \E k \in ShardIds : writers[k].samples_written > 0)

-----------------------------------------------------------------------------
(* C14 *)

\* C14: when close of a JsonlWriter or ParquetWriter returns, its value is
\* true iff a write_sample call was accepted before it, iff the file holds a
\* record of this writer; and when it is false no file exists at the path,
\* whether or not one was there before.
C14_CloseReportsData ==
    fw.state = "closed" =>
        /\ IsSome(fw.result)
        /\ Unwrap(fw.result) <=> fw.accepted > 0
        /\ Unwrap(fw.result) <=> fpath.rows > 0
        /\ ~Unwrap(fw.result) => ~fpath.exists

\* a writer closed without a record: close returned false
C14_Witness ==
    /\ fw.state = "closed"
    /\ fw.result = Some(FALSE)
    /\ ~fpath.exists

\* a writer whose write_sample failed once and whose close returned true
C14_WitnessData ==
    /\ fw.state = "closed"
    /\ fw.result = Some(TRUE)
    /\ fw.accepted < fw.calls
    /\ fpath.rows = fw.calls

-----------------------------------------------------------------------------
(* C15 *)

\* position p was read successfully and passed every step
Survived(p) == inputs[p].ok /\ ~Filtered(p)

FilteredAtStep(p, k) == Filtered(p) /\ LastCall(p).step = k

\* the final and error directories and writers of a completed run
FinalAndErrorOnDemand ==
    /\ FinalDir \in dirs <=> \E p \in Positions : Survived(p)
    /\ ErrorDir \in dirs <=> \E p \in Positions : ~inputs[p].ok
    /\ IsSome(final_writer) <=> FinalDir \in dirs
    /\ IsSome(err_writer) <=> ErrorDir \in dirs
    /\ \A k \in Steps : IsSome(step_writers[k]) <=> StepDir(k) \in dirs
    /\ (NumOps = 0 /\ \A p \in Positions : inputs[p].ok) => dirs \subseteq {FinalDir}

\* C15, as claimed: after a completed run final/ exists iff a record survived,
\* trace/step_i/ exists iff a record was dropped or failed at step i, error/
\* exists iff the reader yielded an error; an empty pipeline without reader
\* errors makes nothing but final/.
C15_DirsOnDemandAnyRun ==
    pc = "done" =>
        /\ FinalAndErrorOnDemand
        /\ \A k \in Steps :
             StepDir(k) \in dirs <=> \E p \in Positions : FilteredAtStep(p, k)

\* C15, amended: as claimed, except that trace/step_i/ exists iff tracing is
\* enabled and a record was dropped or failed at step i.
C15_DirsOnDemand ==
    pc = "done" =>
        /\ FinalAndErrorOnDemand
        /\ \A k \in Steps :
             StepDir(k) \in dirs <=>
                (enable_trace /\ \E p \in Positions : FilteredAtStep(p, k))

\* a completed run with a survivor and a record dropped at step 1: final/ and
\* trace/step_01/ exist, trace/step_00/ and error/ do not
C15_Witness ==
    /\ pc = "done"
    /\ NumOps = 2
    /\ dirs = {FinalDir, StepDir(1)}

-----------------------------------------------------------------------------
(* C16 *)

\* the writers execute has created
CreatedWriters ==
    {Unwrap(o) : o \in {x \in ({final_writer, err_writer} \cup {step_writers[k] : k \in Steps}) :
                          IsSome(x)}}

\* C16: when a write_sample call has failed, execute has returned that error
\* without pulling another record, and every record a writer accepted before
\* the failure is in that writer's file.
C16_WrittenStaysOnDisk ==
    (pc = "failed" /\ returned = Some("write_err")) =>
        /\ total_input_documents = Len(inputs) - 1
        /\ \A w \in CreatedWriters : OnDisk(w) = w.samples

-----------------------------------------------------------------------------
(* C17 *)

\* C17: once the reader has yielded the error of a lost handle, execute pulls
\* nothing more and, when it has dealt with that item, has returned that error.
C17_ReaderFailureAborts ==
    \A p \in Positions :
        inputs[p] = IoErrItem =>
            /\ Len(inputs) = p
            /\ Completed(p) => (pc = "failed" /\ returned = Some(inputs[p].err))

-----------------------------------------------------------------------------
(* C18 *)

\* C18: when execute has returned, with Ok or with an error, close has been
\* called on every writer it created.
C18_AllClosedOnReturn ==
    pc \in {"done", "failed"} => \A w \in CreatedWriters : w.closed

-----------------------------------------------------------------------------
(* C19 *)

InSourceOrder(entries) ==
    \A i \in 1..Len(entries) : \A j \in 1..Len(entries) :
        i < j => entries[i].pos < entries[j].pos

\* C19: the records of the final writer, of each trace writer and of the error
\* writer are in the order the reader yielded them; without a shard key the
\* records of every shard are in the order they were written and every record
\* of a shard was written before every record of the shards after it.
C19_SourceOrder ==
    /\ InSourceOrder(FinalEntries)
    /\ InSourceOrder(ErrorEntries)
    /\ \A k \in Steps : InSourceOrder(TraceEntries(k))
    /\ ~IsSome(shard_key) =>
         /\ \A k \in ShardIds : InSourceOrder(writers[k].samples)
         /\ \A k \in ShardIds : \A m \in ShardIds :
              k < m => \A i \in 1..ShardLen(k) : \A j \in 1..ShardLen(m) :
                          writers[k].samples[i].pos < writers[m].samples[j].pos

\* three shards written one after the other
C19_Witness ==
    /\ sw_state = "open"
    /\ ~IsSome(shard_key)
    /\ ShardIds = {0, 1, 2}
    /\ ShardLen(1) = 2

\* two records of one run in the final writer
C19_WitnessFinal == Len(FinalEntries) = 2

-----------------------------------------------------------------------------
(* C20 *)

\* C20: when the stage has been written, the rows of the partition files, read
\* in the order of their index, are the rows of the processed batches in the
\* order of the input batches, each batch's rows in their order.
C20_PartitionsInBatchOrder ==
    rt_pc = "done" => Rows(partition_files) = Rows(processed_batches_vec)

-----------------------------------------------------------------------------
(* What a flush of the ParquetWriter found and made *)

LastFlush == Unwrap(pq_flush)

\* the last flush was the writer's first: no ArrowWriter existed before it
FirstFlushDone == IsSome(pq_flush) /\ ~LastFlush.fixed

\* the last flush came after the schema was fixed
LaterFlushDone == IsSome(pq_flush) /\ LastFlush.fixed

\* the keys observed in the records of a buffer
ObservedKeys(buffer) == {k \in PqColumns : \E i \in 1..Len(buffer) : IsSome(Get(buffer[i], k))}

\* the first value at `name` among the records that is there and is not null
FirstNonNull(buffer, name) ==
    LET valued == {i \in 1..Len(buffer) : buffer[i][name].t \notin {"missing", "null"}} IN
    IF valued = {} THEN None
    ELSE Some(buffer[CHOOSE i \in valued : \A j \in valued : i <= j][name])

\* the column type of a string, an int, a float and a bool
TypeOfKind(t) ==
    CASE t = "string" -> "Utf8" [] t = "i64" -> "Int64"
      [] t = "f64" -> "Float64" [] t = "bool" -> "Boolean"

-----------------------------------------------------------------------------
(* C21 *)

\* C21: the schema a ParquetWriter fixes on its first flush has the fields of
\* the input schema, unchanged, and one field for every other key observed in
\* a buffered record, whose type is that of the first non-null value of the
\* column among the buffered records when that value is a string, an int, a
\* float or a bool.
C21_SchemaFromFirstFlush ==
    (FirstFlushDone /\ IsSome(actual_schema)) =>
        LET schema == Unwrap(actual_schema)
            buffer == LastFlush.buffer
        IN /\ FieldNames(schema) = FieldNames(input_schema) \cup ObservedKeys(buffer)
           /\ \A i \in 1..Len(input_schema) : schema[i] = input_schema[i]
           /\ \A name \in FieldNames(schema) \ FieldNames(input_schema) :
                LET first == FirstNonNull(buffer, name) IN
                (IsSome(first) /\ Unwrap(first).t \in {"string", "i64", "f64", "bool"}) =>
                    FieldOf(schema, name).data_type = TypeOfKind(Unwrap(first).t)

-----------------------------------------------------------------------------
(* C22 *)

\* C22: a flush made after the schema was fixed, whose buffered records hold a
\* key that is not a field of that schema, has returned an error.
C22_LateColumnIsError ==
    (/\ LaterFlushDone
     /\ ObservedKeys(LastFlush.buffer) \ FieldNames(Unwrap(actual_schema)) # {})
    => ~LastFlush.ok

-----------------------------------------------------------------------------
(* C23 *)

\* C23: a first flush whose buffered records hold, at a key that is not in the
\* input schema, nothing but nulls, arrays and nested objects, has returned an
\* error, and no call is made on the writer after it.
C23_UntypableColumnFails ==
    (/\ FirstFlushDone
     /\ \E name \in ObservedKeys(LastFlush.buffer) \ FieldNames(input_schema) :
          \A i \in 1..Len(LastFlush.buffer) :
              LastFlush.buffer[i][name].t \in {"missing", "null", "array"})
    => (~LastFlush.ok /\ pq_state = "failed")

-----------------------------------------------------------------------------
(* What Plan::compile was given and what it returned *)

CompileEnded == cp_pc \in {"ok", "err", "panic", "executing"}

\* the entries whose name has no factory in the registry
UnknownEntries == {i \in 1..Len(pipeline) : pipeline[i].name \notin registry}

\* the parameters an operator cannot be built without, and their types
ConfigValid(name, config) ==
    CASE name = "filter_leq" -> config["col"].t = "string" /\ config["value"].t = "number"
      [] name = "text_normalize_transformer" -> config["text_col"].t = "string"
      [] OTHER -> TRUE

\* the entries whose operator is registered and whose config is invalid
InvalidEntries ==
    {i \in 1..Len(pipeline) :
        pipeline[i].name \in registry /\ ~ConfigValid(pipeline[i].name, pipeline[i].config)}

\* the first entry that cannot be built, 0 if there is none
FirstFailing ==
    LET failing == UnknownEntries \cup InvalidEntries IN
    IF failing = {} THEN 0 ELSE CHOOSE i \in failing : \A j \in failing : i <= j

\* compile returned one (step_name, operator) per pipeline entry, in declared order
PlanPerEntry ==
    /\ cp_pc \in {"ok", "executing"}
    /\ Len(cp_operators) = Len(pipeline)
    /\ \A i \in 1..Len(pipeline) :
         /\ cp_operators[i].step_name = pipeline[i].name
         /\ Built(cp_operators[i].operator) = Create(pipeline[i].name, pipeline[i].config)

\* compile returned the unknown-operator error naming entry i; no plan, no execute
UnknownOperatorReturned(i) ==
    /\ cp_pc = "err"
    /\ IsSome(cp_error)
    /\ Unwrap(cp_error).kind = "Unknown operator"
    /\ Unwrap(cp_error).name = pipeline[i].name
    /\ cp_operators = <<>>

-----------------------------------------------------------------------------
(* C24 *)

C24_WitnessPlan ==
    /\ cp_pc = "executing"
    /\ Len(cp_operators) = 2
    /\ cp_operators[1].operator = LeqOp
    /\ cp_operators[2].step_name = "add_id"

-----------------------------------------------------------------------------
(* C25 *)

\* C25: when the first entry that cannot be built has a registered operator and
\* an invalid config, compile has returned an error value that is a
\* configuration error carrying the name of that operator.
C25_ConfigErrorReturned ==
    (CompileEnded /\ FirstFailing # 0 /\ FirstFailing \in InvalidEntries) =>
        /\ cp_pc = "err"
        /\ IsSome(cp_error)
        /\ Unwrap(cp_error).kind = "Config error"
        /\ Unwrap(cp_error).name = pipeline[FirstFailing].name

-----------------------------------------------------------------------------
(* What the factory was given and what it made *)

WriterMade == sk_pc \in {"made", "named"}
MadeWriter == Unwrap(sk_writer)

\* the uri of the sink has one of the extensions of a single file
HasFileExtension(uri) ==
    EndsWith(uri, ".parquet") \/ EndsWith(uri, ".jsonl") \/ EndsWith(uri, ".json")

-----------------------------------------------------------------------------
(* C26 *)

\* C26: when the sink gives a shard_key (and a shard size), the final writer
\* execute has created is a sharded writer in keyed mode on that key.
C26_KeyedFinalOutput ==
    (/\ WriterMade
     /\ sk_via = "execute"
     /\ IsSome(sink.shard_key)
     /\ sink.samples_per_shard > 0) =>
        /\ MadeWriter.writer = "sharded"
        /\ MadeWriter.shard_key = sink.shard_key

-----------------------------------------------------------------------------
(* C29 *)

\* the extension of the sink's format, as text
FormatExt == IF MadeWriter.sub = "parquet" THEN "parquet" ELSE "jsonl"

\* the name the shard name pattern stands for
PatternName(pattern, shard_id, ext) ==
    Concat([i \in DOMAIN pattern |->
              CASE IsSome(WidthOf(pattern[i])) -> ZeroPadded(shard_id, Unwrap(WidthOf(pattern[i])))
                [] pattern[i] = "{shard_id}" -> ToString(shard_id)
                [] pattern[i] = "{ext}" -> ext
                [] OTHER -> pattern[i]])

\* C29: the file name of shard k is the configured pattern with every
\* {shard_id:WIDTH} replaced by k zero-padded to WIDTH digits, every {shard_id}
\* by k in decimal and every {ext} by the format extension; with no pattern
\* configured it is part-, k zero-padded to 8 digits, a dot and the format
\* extension.
C29_ShardNamePattern ==
    sk_pc = "named" =>
        Unwrap(sk_shard).path =
            IF IsSome(sink.shard_name_pattern)
            THEN PatternName(Unwrap(sink.shard_name_pattern), Unwrap(sk_shard).shard_id,
                             FormatExt)
            ELSE "part-" \o ZeroPadded(Unwrap(sk_shard).shard_id, 8) \o "." \o FormatExt

-----------------------------------------------------------------------------
(* C30 *)

\* C30: a sink (with a shard size) whose uri ends with .parquet, .jsonl or .json
\* is written by a single-file writer at that uri; any other sink is written
\* by the sharded writer, in the directory at that uri or, by execute, in its
\* final/ subdirectory.
C30_SinkUriConvention ==
    (WriterMade /\ sink.samples_per_shard > 0) =>
        IF HasFileExtension(sink.uri)
        THEN /\ MadeWriter.writer = "single"
             /\ MadeWriter.base_path = sink.uri
        ELSE /\ MadeWriter.writer = "sharded"
             /\ MadeWriter.base_path \in {sink.uri, FinalBase(sink)}

-----------------------------------------------------------------------------
(* C27 *)

\* the reader positions on which operator k was called
ReachedStep(k) ==
    {p \in Positions : \E j \in 1..Len(calls[p]) : calls[p][j].step = k}

\* the reader positions for which operator k returned Dropped or Failed
RemovedAtStep(k) ==
    {p \in Positions :
        \E j \in 1..Len(calls[p]) : calls[p][j].step = k /\ calls[p][j].result.kind # "Kept"}

\* C27: the statistics execute returns have one entry per step, in order, and
\* for step i documents_remaining_before is the number of records on which
\* operator i was called, documents_removed the number for which it returned
\* Dropped or Failed, and total_documents the number of items the reader
\* yielded, errors included.
C27_Statistics ==
    pc = "done" =>
        /\ Len(step_stats) = NumOps
        /\ \A k \in Steps :
             LET st == step_stats[k + 1] IN
             /\ st.step_index = k
             /\ st.step_name = operators[k + 1].name
             /\ st.documents_remaining_before = Cardinality(ReachedStep(k))
             /\ st.documents_removed = Cardinality(RemovedAtStep(k))
             /\ st.total_documents = Len(inputs)

\* a run over a reader error and a record that step 0 kept and step 1 removed
C27_Witness ==
    /\ pc = "done"
    /\ NumOps = 2
    /\ Len(inputs) = 2
    /\ \E p \in Positions : ~inputs[p].ok
    /\ step_stats[1].documents_remaining_before = 1
    /\ step_stats[1].documents_removed = 0
    /\ step_stats[2].documents_removed = 1
    /\ step_stats[2].total_documents = 2

-----------------------------------------------------------------------------
(* C28: column projection *)

\* new has returned
CfConstructed == cf_pc \in {"ready", "err", "done"}

\* new fails iff some mapped source name is absent from the source schema, and
\* its error names such a column
CfFailsIffMissing ==
    CfConstructed =>
        /\ (cf_pc = "err") <=> (MissingColumns(original_schema, column_mapping) # {})
        /\ cf_pc = "err" =>
             /\ IsSome(cf_error)
             /\ Unwrap(cf_error) \in MissingColumns(original_schema, column_mapping)
        /\ cf_pc # "err" => IsSome(filtered_schema)

\* one item yielded per item read; an error is yielded as it was read, at its
\* position
CfErrorsPassThrough ==
    /\ Len(cf_yielded) = Len(cf_read)
    /\ \A i \in 1..Len(cf_read) :
         /\ cf_yielded[i].ok = cf_read[i].ok
         /\ ~cf_read[i].ok => cf_yielded[i] = cf_read[i]

\* the keys of the i-th record yielded are mapped new names, each with the value
\* the record read had at its source name
CfOnlyMapped(i) ==
    /\ Keys(cf_yielded[i].sample) \subseteq DOMAIN column_mapping
    /\ \A new_name \in Keys(cf_yielded[i].sample) :
         cf_yielded[i].sample[new_name] = cf_read[i].sample[column_mapping[new_name]]

\* every mapped new name whose source name the record read has is a key
CfAllMapped(i) ==
    \A new_name \in DOMAIN column_mapping :
        column_mapping[new_name] \in Keys(cf_read[i].sample)
            => new_name \in Keys(cf_yielded[i].sample)

\* C28 as stated: for every mapping, a record yielded for a record read has only
\* mapped new names as keys, each holding the value the source record had at
\* its source name; new fails iff a mapped source name is absent from the source
\* schema; reader errors pass through unchanged and in position.
C28_ProjectionAnyMapping ==
    /\ CfFailsIffMissing
    /\ CfErrorsPassThrough
    /\ \A i \in 1..Len(cf_read) : cf_read[i].ok => CfOnlyMapped(i)

\* C28, amended: with a mapping that is not empty, a record yielded for a record
\* read has as keys exactly the mapped new names whose source name the record
\* has, each holding the value the record had at its source name, and every
\* other source column is dropped; with an empty mapping the record is yielded
\* as it was read, all columns kept. new fails iff a mapped source name is
\* absent from the source schema; reader errors pass through unchanged and in
\* position.
C28_Projection ==
    /\ CfFailsIffMissing
    /\ CfErrorsPassThrough
    /\ \A i \in 1..Len(cf_read) :
         cf_read[i].ok =>
             IF DOMAIN column_mapping = {}
             THEN cf_yielded[i] = cf_read[i]
             ELSE CfOnlyMapped(i) /\ CfAllMapped(i)

\* a reader that renames "id" to "text" has yielded an error, then a record that
\* lost its "text" and "score" columns
C28_Witness ==
    /\ cf_pc = "done"
    /\ DOMAIN column_mapping = {"text"}
    /\ column_mapping["text"] = "id"
    /\ Len(cf_read) = 2
    /\ ~cf_read[1].ok
    /\ cf_read[2].ok
    /\ Keys(cf_read[2].sample) = {"text", "score", "id"}
    /\ Keys(cf_yielded[2].sample) = {"text"}
    /\ cf_yielded[2].sample["text"] = Str("u1")

\* new has failed on a mapping whose source name the schema lacks
C28_WitnessFails ==
    /\ cf_pc = "err"
    /\ cf_error = Some("id")

-----------------------------------------------------------------------------
(* C31, C34: the items of a JSONL file *)

JrLines == {jr_file[i] : i \in 1..Len(jr_file)}

\* the reader is done: new has failed, or the `for` loop has met None
JrFinished == jr_pc \in {"err", "ended"}

\* the lines of the file that are not blank, in file order
NonBlankLines == SelectSeq(jr_file, LAMBDA line : ~TrimIsEmpty(line))

IsObjectLine(line) == from_str(line).ok /\ from_str(line).value.t = "object"

\* C31 (violated): in a file whose lines are JSON objects and malformed lines,
\* read without an I/O failure, a malformed line at any position, the first
\* included, is one Err item of the reader, and every line of the file is
\* read: the reader is constructed, and yields one item per line, Err for the
\* malformed lines and Ok for the others.
C31_MalformedLineIsRecordError ==
    (JrFinished /\ ~jr_io_failed /\ JrLines \subseteq {LineA, LineC, LineBad})
        => /\ jr_pc = "ended"
           /\ Len(jr_items) = Len(jr_file)
           /\ \A i \in 1..Len(jr_file) : jr_items[i].ok <=> jr_file[i] # LineBad

\* C34 (violated): a file read to its end without an I/O failure has yielded
\* one item per line that is not blank, in file order: Ok with the members of
\* the line's JSON object, Err for a line that holds no JSON object.
C34_OneItemPerNonBlankLine ==
    (jr_pc = "ended" /\ ~jr_io_failed)
        => /\ Len(jr_items) = Len(NonBlankLines)
           /\ \A i \in 1..Len(NonBlankLines) :
                IF IsObjectLine(NonBlankLines[i])
                THEN jr_items[i] = OkItem(from_str(NonBlankLines[i]).value.obj)
                ELSE ~jr_items[i].ok

-----------------------------------------------------------------------------
(* C32: bounded buffering of JsonlWriter and ParquetWriter *)

\* C32 (violated): for a JsonlWriter or a ParquetWriter with partition size P,
\* while every write_sample call has returned Ok the writer holds fewer than P
\* buffered records; at every moment the number of records handed to
\* write_sample equals samples_written plus the length of the buffer; after a
\* close that returned Ok the buffer is empty.
C32_BoundedBuffering ==
    fw.state # "idle" =>
        /\ fw.accepted = fw.calls => fw.buffer < PartitionSize
        /\ fw.calls = fw.samples_written + fw.buffer
        /\ fw.state = "closed" => fw.buffer = 0

-----------------------------------------------------------------------------
(* C33: conservation of the statistics *)

\* the number of Err items the reader yielded
ReaderErrorCount == Cardinality({p \in Positions : ~inputs[p].ok})

\* documents_removed summed over the first k entries of the statistics
RECURSIVE SumRemoved(_)
SumRemoved(k) ==
    IF k = 0 THEN 0 ELSE SumRemoved(k - 1) + step_stats[k].documents_removed

\* C33: after a completed run, documents_remaining_before of step 0 is
\* total_documents minus the number of reader errors, documents_remaining_before
\* of step i+1 is that of step i minus documents_removed of step i, and
\* num_documents is total_documents minus the reader errors minus the sum of
\* documents_removed over all steps.
C33_Conservation ==
    pc = "done" =>
        /\ \A k \in 1..NumOps :
             /\ step_stats[k].total_documents = total_input_documents
             /\ step_stats[k].documents_remaining_before =
                  IF k = 1 THEN total_input_documents - ReaderErrorCount
                  ELSE step_stats[k - 1].documents_remaining_before
                         - step_stats[k - 1].documents_removed
        /\ total_rows = total_input_documents - ReaderErrorCount - SumRemoved(NumOps)

\* a completed run of two steps over a reader error and a record that passed
\* both steps
C33_Witness ==
    /\ pc = "done"
    /\ NumOps = 2
    /\ total_input_documents = 2
    /\ ReaderErrorCount = 1
    /\ step_stats[1].documents_remaining_before = 1
    /\ step_stats[2].documents_remaining_before = 1
    /\ SumRemoved(NumOps) = 0
    /\ total_rows = 1

-----------------------------------------------------------------------------
(* C35: the files of distinct shards *)

\* C35 (violated): with any configured shard name pattern and a shard size,
\* the path get_shard_path gave for one shard id is the path of no other shard
\* id, so
\* the writer opened for one shard creates or truncates no other shard's file.
C35_DistinctShardPaths ==
    (sk_pc = "named" /\ IsSome(sink.shard_name_pattern) /\ MadeWriter.samples_per_shard > 0) =>
        \A other \in 0..MaxShardName :
            other # Unwrap(sk_shard).shard_id
                => get_shard_path(MadeWriter, other) # Unwrap(sk_shard).path

-----------------------------------------------------------------------------
(* C36: the rows of a ParquetReader with a column mapping *)

\* C36 (violated): a ParquetReader built with a mapping of two or more entries
\* over a file that has every mapped column, read without an I/O failure,
\* does not panic, and the i-th record it yields holds under every new name of
\* the mapping the value the i-th row of the file has in the mapped source
\* column, whatever the order of the mapping and of the file's columns.
C36_MappedValues ==
    (Cardinality(DOMAIN pr_mapping) >= 2 /\ ~pr_io_failed
       /\ pr_pc \in {"open", "ended", "panic"}) =>
        /\ pr_pc # "panic"
        /\ \A i \in 1..Len(pr_items) :
             /\ pr_items[i].ok
             /\ \A new_name \in DOMAIN pr_mapping :
                  pr_items[i].sample[new_name] = pr_rows[i][pr_mapping[new_name]]

-----------------------------------------------------------------------------
(* C37: the size of the partition files *)

\* C37 (violated): every partition file written for a stage holds at most
\* partition_size rows, whatever the sizes of the processed batches.
C37_PartitionSizeBound ==
    \A i \in 1..Len(partition_files) : num_rows(partition_files[i]) <= partition_size

-----------------------------------------------------------------------------
(* C38: a stage in which an operator failed *)

\* an operator has failed on some batch of the stage
OperatorFailed ==
    \E i \in DOMAIN processed_batches :
        IsSome(processed_batches[i]) /\ ~Unwrap(processed_batches[i]).ok

\* C38: once an operator has failed on a batch of the stage, the stage never
\* reaches its writes: no partition file and no manifest is written, so nothing
\* an earlier stage wrote is touched, and when every batch has been processed
\* run_pipeline returns the error.
C38_FailedStageWritesNothing ==
    OperatorFailed =>
        /\ rt_pc \in {"map", "failed"}
        /\ partition_files = <<>>
        /\ stage_manifest = None
        /\ current_partition = <<>>

\* run_pipeline has returned the error of the second batch, after the first
\* batch, two rows, was processed without error
C38_Witness ==
    /\ rt_pc = "failed"
    /\ Len(batches) = 2
    /\ Unwrap(processed_batches[1]).ok
    /\ num_rows(Unwrap(processed_batches[1]).batch) = 2
    /\ ~Unwrap(processed_batches[2]).ok
    /\ partition_files = <<>>
    /\ stage_manifest = None

-----------------------------------------------------------------------------
(* C39: the items of a MultiFileReader *)

\* the items of the first n readers, reader after reader
RECURSIVE ItemsOfReaders(_)
ItemsOfReaders(n) ==
    IF n = 0 THEN <<>> ELSE ItemsOfReaders(n - 1) \o mf_readers[n].items

AllReaderItems == ItemsOfReaders(Len(mf_readers))

\* the schema of some reader differs from the first reader's in the name or the
\* type of a field
SomeSchemaDiffers ==
    \E k \in 2..Len(mf_readers) :
        \/ Len(mf_readers[k].schema) # Len(mf_readers[1].schema)
        \/ \E i \in 1..Len(mf_readers[1].schema) :
             Field(mf_readers[k].schema[i].name, mf_readers[k].schema[i].data_type)
                # Field(mf_readers[1].schema[i].name, mf_readers[1].schema[i].data_type)

\* C39: what a MultiFileReader has yielded is at every moment a prefix of its
\* readers' items, reader after reader, each reader's items in their order, so
\* no item is skipped, repeated or yielded before an item of an earlier reader;
\* it returns None exactly when every item has been yielded; and new fails when
\* some reader's schema differs from the first reader's.
C39_Concatenation ==
    /\ mf_pc \in {"open", "ended"} =>
         /\ Len(mf_yielded) <= Len(AllReaderItems)
         /\ mf_yielded = SubSeq(AllReaderItems, 1, Len(mf_yielded))
         /\ ~SomeSchemaDiffers
         /\ mf_schema = Some(mf_readers[1].schema)
    /\ mf_pc = "ended" => mf_yielded = AllReaderItems
    /\ (mf_pc \in {"err", "open", "ended"} /\ SomeSchemaDiffers) => mf_pc = "err"

\* two readers read to the end: an error and a record of the first, then two
\* records of the second
C39_Witness ==
    /\ mf_pc = "ended"
    /\ Len(mf_readers) = 2
    /\ Len(mf_yielded) = 4
    /\ ~mf_yielded[1].ok
    /\ mf_yielded[2] = ReaderItem(1, 2, FALSE)
    /\ mf_yielded[3] = ReaderItem(2, 1, FALSE)
    /\ mf_yielded[4] = ReaderItem(2, 2, FALSE)

\* new has failed on a second reader whose schema has another type
C39_WitnessIncompatible ==
    /\ mf_pc = "err"
    /\ Len(mf_readers) = 2
    /\ mf_error = Some("Reader 1 has incompatible schema with the first reader")

====
